---- MODULE Spec2Model ----
(***************************************************************************)
(* Verification model of the go-php application server: the worker         *)
(* supervisor (server/worker.go), the pools and the classifier             *)
(* (server/pool.go, server/server.go) and the WebSocket event hub          *)
(* (WSHub).  Every subsystem has its own group of variables and its own    *)
(* specification; the groups not driven by a specification stay as Init    *)
(* left them.                                                              *)
(***************************************************************************)
EXTENDS Integers, Sequences, FiniteSets, TLC

(***************************************************************************)
(* Event hub (WSHub)                                                       *)
(***************************************************************************)

\* make(chan WSMessage, 16): capacity of every subscriber's Send channel.
BufSize == 16

\* Channel names used by the callers of the hub.
Channels == {"a", "b"}

\* Bounds of the hub model: clients ever created, Publish calls in flight.
MaxClients == 2
MaxInflight == 1

VARIABLES
    clients,       \* WSHub.clients: channel -> set of subscribed clients (a Go map: absent key = nil)
    wsSend,        \* WSClient.Send of every client created so far: the buffered messages
    wsClosed,      \* whether close(c.Send) has been executed on the client's channel
    clientChan,    \* the channel name the caller subscribed the client to
    pubs,          \* Publish calls in flight (holding h.mu.RLock): slot -> record
    closeCount,    \* history: successful close(c.Send) executions per client
    closePanic,    \* history: Unsubscribe raised "close of closed channel"
    sendPanic,     \* history: Publish raised "send on closed channel"
    unsubReturned, \* history: clients c for which Unsubscribe(clientChan[c], c) has returned
    lateDelivery,  \* history: a message was put into the buffer of a client in unsubReturned
    lastPub        \* history: the last Publish call that returned (its subscribers and outcome)

hubVars == <<clients, wsSend, wsClosed, clientChan, pubs, closeCount, closePanic,
             sendPanic, unsubReturned, lateDelivery, lastPub>>

ClientIds == DOMAIN wsSend

Slots == 1..MaxInflight

NoPub == [active |-> FALSE, ch |-> "a", data |-> 0, todo |-> {}, subs |-> {}, got |-> {},
          dropped |-> {}]

\* WSMessage{Channel, Type, Data}: the channel and the marshalled payload (the
\* type travels with the payload).
WSMessage(ch, d) == [channel |-> ch, data |-> d]

\* NewWSHub(): an empty registry.
HubInit ==
    /\ clients = <<>>
    /\ wsSend = <<>>
    /\ wsClosed = <<>>
    /\ clientChan = <<>>
    /\ pubs = [p \in Slots |-> NoPub]
    /\ closeCount = <<>>
    /\ closePanic = FALSE
    /\ sendPanic = FALSE
    /\ unsubReturned = {}
    /\ lateDelivery = FALSE
    /\ lastPub = NoPub

\* h.mu.Lock() succeeds only when no reader (Publish in flight) holds the lock.
NoReaders == \A p \in Slots : ~pubs[p].active

\* h.clients[channel]: nil (here the empty set) when the key is absent.
SubsOf(ch) == IF ch \in DOMAIN clients THEN clients[ch] ELSE {}

\* Extend or overwrite one key of a map.
MapPut(f, k, v) == [x \in (DOMAIN f) \cup {k} |-> IF x = k THEN v ELSE f[x]]

\* delete(m, k)
MapDel(f, k) == [x \in (DOMAIN f) \ {k} |-> f[x]]

\* WSHub.Subscribe(channel): a fresh client with an empty 16-slot channel is
\* registered under the channel (the set is created when the key is absent).
Subscribe(ch) ==
    /\ NoReaders
    /\ Cardinality(ClientIds) < MaxClients
    /\ LET c == Cardinality(ClientIds) + 1 IN
        /\ wsSend' = MapPut(wsSend, c, <<>>)
        /\ wsClosed' = MapPut(wsClosed, c, FALSE)
        /\ clientChan' = MapPut(clientChan, c, ch)
        /\ closeCount' = MapPut(closeCount, c, 0)
        /\ clients' = MapPut(clients, ch, SubsOf(ch) \cup {c})
    /\ UNCHANGED <<pubs, closePanic, sendPanic, unsubReturned, lateDelivery, lastPub>>

\* Faulty variant of UnsubRegistry: the key is kept when its set became empty.
UnsubRegistryKeepsKey(ch, c) == MapPut(clients, ch, SubsOf(ch) \ {c})

\* Faulty variant of UnsubRegistry: the client is closed but left in the registry.
UnsubRegistryKeep(ch, c) == clients

\* The registry after delete(subs, c) and the `if len(subs) == 0` that follows
\* close(c.Send): the key is dropped when the set became empty.
UnsubRegistry(ch, c) ==
    IF SubsOf(ch) \ {c} = {} THEN MapDel(clients, ch)
    ELSE MapPut(clients, ch, SubsOf(ch) \ {c})

\* WSHub.Unsubscribe(channel, c), called with the channel c was subscribed on
\* (the callers pair Subscribe(channel) with Unsubscribe(channel, client)).
\*   subs == nil  -> return
\*   delete(subs, c); close(c.Send): close panics when c.Send is already
\*   closed; the deferred Unlock runs and the call does not return normally.
Unsubscribe(c) ==
    LET ch == clientChan[c] IN
    /\ NoReaders
    /\ IF ch \notin DOMAIN clients
       THEN /\ unsubReturned' = unsubReturned \cup {c}
            /\ UNCHANGED <<clients, wsClosed, closeCount, closePanic>>
       ELSE IF wsClosed[c]
            THEN /\ clients' = MapPut(clients, ch, SubsOf(ch) \ {c})
                 /\ closePanic' = TRUE
                 /\ UNCHANGED <<wsClosed, closeCount, unsubReturned>>
            ELSE /\ clients' = UnsubRegistry(ch, c)
                 /\ wsClosed' = [wsClosed EXCEPT ![c] = TRUE]
                 /\ closeCount' = [closeCount EXCEPT ![c] = @ + 1]
                 /\ unsubReturned' = unsubReturned \cup {c}
                 /\ UNCHANGED closePanic
    /\ UNCHANGED <<wsSend, clientChan, pubs, sendPanic, lateDelivery, lastPub>>

\* Faulty variant of PublishMsg: the message goes to the subscribers of every
\* channel.
PublishMsgAllChannels(p, ch, d) ==
    /\ ~pubs[p].active
    /\ pubs' = [pubs EXCEPT ![p] = [active |-> TRUE, ch |-> ch, data |-> d,
                                    todo |-> UNION {SubsOf(x) : x \in Channels},
                                    subs |-> UNION {SubsOf(x) : x \in Channels},
                                    got |-> {}, dropped |-> {}]]
    /\ UNCHANGED <<clients, wsSend, wsClosed, clientChan, closeCount, closePanic,
                   sendPanic, unsubReturned, lateDelivery, lastPub>>

\* WSHub.Publish, first part: the message is built, h.mu.RLock() is taken and
\* subs := h.clients[channel] is read.  Readers share the lock.
PublishMsg(p, ch, d) ==
    /\ ~pubs[p].active
    /\ pubs' = [pubs EXCEPT ![p] = [active |-> TRUE, ch |-> ch, data |-> d,
                                    todo |-> SubsOf(ch), subs |-> SubsOf(ch),
                                    got |-> {}, dropped |-> {}]]
    /\ UNCHANGED <<clients, wsSend, wsClosed, clientChan, closeCount, closePanic,
                   sendPanic, unsubReturned, lateDelivery, lastPub>>

\* A Publish whose payload its callers do not tell apart from another's.
PublishBegin(p, ch) == PublishMsg(p, ch, 0)

\* Faulty variant of PublishSend: a blocking send (no default branch), which waits
\* while the subscriber's buffer is full.
PublishSendBlocking(p, c) ==
    /\ pubs[p].active
    /\ c \in pubs[p].todo
    /\ ~wsClosed[c]
    /\ Len(wsSend[c]) < BufSize
    /\ wsSend' = [wsSend EXCEPT ![c] = Append(@, WSMessage(pubs[p].ch, pubs[p].data))]
    /\ pubs' = [pubs EXCEPT ![p].todo = @ \ {c}, ![p].got = @ \cup {c}]
    /\ UNCHANGED <<clients, wsClosed, clientChan, closeCount, closePanic,
                   sendPanic, unsubReturned, lateDelivery, lastPub>>

\* One iteration of `for c := range subs`: select { case c.Send <- ev: default: }.
\* A send on a closed channel panics; a full buffer takes the default branch.
PublishSend(p, c) ==
    /\ pubs[p].active
    /\ c \in pubs[p].todo
    /\ IF wsClosed[c]
       THEN /\ sendPanic' = TRUE
            /\ pubs' = [pubs EXCEPT ![p] = NoPub]
            /\ UNCHANGED <<wsSend, lateDelivery>>
       ELSE IF Len(wsSend[c]) < BufSize
            THEN /\ wsSend' = [wsSend EXCEPT ![c] = Append(@, WSMessage(pubs[p].ch, pubs[p].data))]
                 /\ pubs' = [pubs EXCEPT ![p].todo = @ \ {c}, ![p].got = @ \cup {c}]
                 /\ lateDelivery' = (lateDelivery \/ c \in unsubReturned)
                 /\ UNCHANGED sendPanic
            ELSE /\ pubs' = [pubs EXCEPT ![p].todo = @ \ {c}, ![p].dropped = @ \cup {c}]
                 /\ UNCHANGED <<wsSend, lateDelivery, sendPanic>>
    /\ UNCHANGED <<clients, wsClosed, clientChan, closeCount, closePanic,
                   unsubReturned, lastPub>>

\* WSHub.Publish, end of the loop: h.mu.RUnlock() and return.
PublishEnd(p) ==
    /\ pubs[p].active
    /\ pubs[p].todo = {}
    /\ lastPub' = pubs[p]
    /\ pubs' = [pubs EXCEPT ![p] = NoPub]
    /\ UNCHANGED <<clients, wsSend, wsClosed, clientChan, closeCount, closePanic,
                   sendPanic, unsubReturned, lateDelivery>>

\* The subscriber's consumer: msg := <-c.Send.
Recv(c) ==
    /\ Len(wsSend[c]) > 0
    /\ wsSend' = [wsSend EXCEPT ![c] = Tail(@)]
    /\ UNCHANGED <<clients, wsClosed, clientChan, pubs, closeCount, closePanic,
                   sendPanic, unsubReturned, lateDelivery, lastPub>>

(***************************************************************************)
(* Classifier (Server.IsSlowRequest, Server.RecordLatency)                 *)
(*                                                                         *)
(* Strings are sequences of one-character strings, so that prefixes, the   *)
(* first path segment and upper-casing are computed as the code computes   *)
(* them.  Durations are whole milliseconds.                                *)
(***************************************************************************)

\* slowCfg.BodyThreshold default applied by NewServer.
DefaultBodyThreshold == 2000000

\* RecordLatency: `if rs.count >= 10` and `avg > 500*time.Millisecond`.
MinSamples == 10
SlowAvgMs == 500

\* time.Millisecond in nanoseconds, the unit of time.Duration.
NsPerMs == 1000000

\* Bound: RecordLatency calls in one run.
MaxRecords == 12

\* slowCfg.Methods default applied by NewServer.
DefaultMethods == << <<"P","U","T">>, <<"D","E","L","E","T","E">> >>

\* Configurations handed to NewServer (slow_routes, slow_methods,
\* slow_body_threshold of go_appserver.json).
CfgPrefixes == { << >>, << << >>, <<"/","q">> >> }
CfgPolicies == { [methods |-> << >>, threshold |-> 0],
                 [methods |-> << <<"p","u","t">> >>, threshold |-> 3] }

\* Requests seen by the classifier: [path, method, len(Body)].  The body
\* lengths are the small threshold, one more, and one more than the default.
Req(path, method, bodyLen) == [path |-> path, method |-> method, bodyLen |-> bodyLen]
Requests == {
    Req(<<"/","r","/","s">>, <<"G","E","T">>, 3),
    Req(<<"/","q","/","z">>, <<"G","E","T">>, 3),
    Req(<<"*">>, <<"p","u","t">>, 3),
    Req(<<"*">>, <<"D","e","l","e","t","e">>, 3),
    Req(<<"*">>, <<"G","E","T">>, 3),
    Req(<<"*">>, <<"G","E","T">>, 4),
    Req(<<"*">>, <<"G","E","T">>, DefaultBodyThreshold),
    Req(<<"*">>, <<"G","E","T">>, DefaultBodyThreshold + 1) }

\* Paths and latencies (ms) handed to RecordLatency.
RecPaths == { <<"/","r","/","d">>, <<"/","r","/","s">>, <<"*">> }
Latencies == {400, 600}

VARIABLES
    routePrefixes,  \* s.slowCfg.RoutePrefixes
    slowMethods,    \* s.slowCfg.Methods
    bodyThreshold,  \* s.slowCfg.BodyThreshold
    routeStats,     \* s.routeStats: route key -> [count, total]
    lastReq,        \* the request of the last IsSlowRequest call (<<>> before the first)
    lastSlow,       \* the result of the last IsSlowRequest call
    crossed,        \* history: route keys that had >= 10 samples and a mean above 500 ms at a recording
    records         \* history: RecordLatency calls made

clsVars == <<routePrefixes, slowMethods, bodyThreshold, routeStats, lastReq, lastSlow,
             crossed, records>>

\* unicode.ToUpper on the letters used here.
UpperChar(c) ==
    CASE c = "p" -> "P" [] c = "u" -> "U" [] c = "t" -> "T" [] c = "d" -> "D"
      [] c = "e" -> "E" [] c = "l" -> "L" [] c = "g" -> "G" [] OTHER -> c

\* strings.ToUpper
ToUpper(s) == [i \in 1..Len(s) |-> UpperChar(s[i])]

\* strings.HasPrefix
HasPrefix(s, p) == Len(p) <= Len(s) /\ SubSeq(s, 1, Len(p)) = p

\* strings.Index(s, "/"): 0-based index of the first "/", -1 when there is none.
IndexSlash(s) ==
    IF \E i \in 1..Len(s) : s[i] = "/"
    THEN (CHOOSE i \in 1..Len(s) : s[i] = "/" /\ \A j \in 1..(i - 1) : s[j] # "/") - 1
    ELSE -1

\* NewServer: defaults applied to the slow-request configuration.
ClsInit ==
    /\ routePrefixes \in CfgPrefixes
    /\ \E cfg \in CfgPolicies :
          /\ slowMethods = IF Len(cfg.methods) = 0 THEN DefaultMethods ELSE cfg.methods
          /\ bodyThreshold = IF cfg.threshold <= 0 THEN DefaultBodyThreshold ELSE cfg.threshold
    /\ routeStats = << >>
    /\ lastReq = << >>
    /\ lastSlow = FALSE
    /\ crossed = {}
    /\ records = 0

\* First loop of IsSlowRequest: some non-empty prefix is a prefix of the path.
RECURSIVE PrefixLoop(_, _, _)
PrefixLoop(prefixes, path, i) ==
    IF i > Len(prefixes) THEN FALSE
    ELSE IF prefixes[i] # << >> /\ HasPrefix(path, prefixes[i]) THEN TRUE
    ELSE PrefixLoop(prefixes, path, i + 1)

\* Last loop of IsSlowRequest: method == strings.ToUpper(m) for some m.
RECURSIVE MethodLoop(_, _, _)
MethodLoop(methods, method, i) ==
    IF i > Len(methods) THEN FALSE
    ELSE IF method = ToUpper(methods[i]) THEN TRUE
    ELSE MethodLoop(methods, method, i + 1)

\* Faulty variant of BodyOver: a body of exactly threshold bytes counts as large.
BodyOverInclusive(bodyLen, threshold) == threshold > 0 /\ bodyLen >= threshold

\* The body-size test of IsSlowRequest.
BodyOver(bodyLen, threshold) == threshold > 0 /\ bodyLen > threshold

\* Server.IsSlowRequest, evaluated on given configuration values.
IsSlowWith(prefixes, methods, threshold, r) ==
    IF PrefixLoop(prefixes, r.path, 1) THEN TRUE
    ELSE IF BodyOver(r.bodyLen, threshold) THEN TRUE
    ELSE MethodLoop(methods, ToUpper(r.method), 1)

\* Server.IsSlowRequest on the current configuration.
IsSlowRequest(r) == IsSlowWith(routePrefixes, slowMethods, bodyThreshold, r)

\* A caller evaluates IsSlowRequest(r).
Classify(r) ==
    /\ lastReq' = r
    /\ lastSlow' = IsSlowRequest(r)
    /\ UNCHANGED <<routePrefixes, slowMethods, bodyThreshold, routeStats, crossed, records>>

\* RecordLatency: the route key, the path cut before the second "/".
RouteKey(path) ==
    IF HasPrefix(path, <<"/">>)
    THEN LET slash == IndexSlash(Tail(path)) IN
         IF slash # -1 THEN SubSeq(path, 1, slash + 1) ELSE path
    ELSE path

\* Faulty variant of hasSlowPrefix: the key is never found in the list.
hasSlowPrefixNever(prefix) == FALSE

\* Server.hasSlowPrefix
hasSlowPrefix(prefix) == \E i \in 1..Len(routePrefixes) : routePrefixes[i] = prefix

\* avg := rs.totalLatency / time.Duration(rs.count); avg > 500*time.Millisecond.
\* The division is an integer division of nanoseconds: the quotient is split
\* into whole milliseconds and the remaining nanoseconds.
AvgExceeds(total, count) ==
    LET wholeMs == total \div count
        fracNs == ((total % count) * NsPerMs) \div count
    IN wholeMs > SlowAvgMs \/ (wholeMs = SlowAvgMs /\ fracNs > 0)

\* Faulty variant of ShouldPromote: promotion needs more than MinSamples samples.
ShouldPromoteLate(count, total) == count > MinSamples /\ AvgExceeds(total, count)

\* The promotion test of RecordLatency on the updated entry.
ShouldPromote(count, total) == count >= MinSamples /\ AvgExceeds(total, count)

\* Server.RecordLatency(path, d)
RecordLatency(path, d) ==
    LET prefix == RouteKey(path)
        rs == IF prefix \in DOMAIN routeStats THEN routeStats[prefix]
              ELSE [count |-> 0, total |-> 0]
        count == rs.count + 1
        total == rs.total + d
    IN
    /\ records < MaxRecords
    /\ records' = records + 1
    /\ routeStats' = MapPut(routeStats, prefix, [count |-> count, total |-> total])
    /\ routePrefixes' = IF ShouldPromote(count, total) /\ ~hasSlowPrefix(prefix)
                        THEN Append(routePrefixes, prefix)
                        ELSE routePrefixes
    /\ crossed' = IF count >= MinSamples /\ total > SlowAvgMs * count
                  THEN crossed \cup {prefix} ELSE crossed
    /\ UNCHANGED <<slowMethods, bodyThreshold, lastReq, lastSlow>>

(***************************************************************************)
(* Workers and pools (src/server/worker.go, pool.go, server.go)             *)
(***************************************************************************)

\* Handle's loop bound: for attempt := 0; attempt < 2; attempt++.
MaxAttempts == 2

\* Number of Handle/Stream calls issued in one run.
MaxCalls == 2

Calls == 1..MaxCalls

\* The workers NewServer creates: a fast pool of two and a slow pool of one.
FastWorkers == <<"f1", "f2">>
SlowWorkers == <<"s1">>
Workers == {FastWorkers[i] : i \in 1..Len(FastWorkers)} \cup {SlowWorkers[i] : i \in 1..Len(SlowWorkers)}

\* The worker the worker-level specification drives directly, as a caller
\* holding a *Worker does.
DirectWorker == "f1"

\* The settings NewServer hands to every worker: recycle after maxRequests
\* responses (0 = never), time out after requestTimeout (0 = never; the model
\* keeps only whether it is positive).
MaxRequestsChoices == {0, 1, 2}
TimeoutChoices == {0, 1}

\* What a child can write to its stdout in reply to one request: the reply to
\* a buffered request is one frame (a response, a frame declaring a length of
\* 0 or more than 10 MiB, or a frame that is not JSON); the reply to a stream
\* request is a sequence of stream frames.
HandleScripts == { <<"resp">>, <<"badlen">>, <<"badjson">> }
StreamScripts == { <<"headers", "chunk", "end">>, <<"chunk", "end">>, <<"error">>,
                   <<"unknown", "end">>, <<"badlen">> }

VARIABLES
    maxRequests,    \* Worker.maxRequests
    requestTimeout, \* Worker.requestTimeout
    mu,             \* Worker.mu: the call holding it, 0 when free
    dead,           \* Worker.dead
    requestCount,   \* Worker.requestCount
    childUp,        \* the current child process is running and its pipes are open
    childReq,       \* request frames the child has on stdin and has not answered
    pipe,           \* frames in the child's stdout that nobody has read yet
    leaked,         \* reader goroutines left behind by timed-out handleRequest calls
    call,           \* per call: position in Handle/Stream and what it has done
    nextFast,       \* WorkerPool.next of the fast pool
    nextSlow,       \* WorkerPool.next of the slow pool
    overlap         \* a request frame was written while an earlier exchange's
                    \* frames were still unanswered or unread on the same child

wrkVars == <<maxRequests, requestTimeout, mu, dead, requestCount, childUp, childReq,
             pipe, leaked, call, nextFast, nextSlow, overlap>>

NoCall == [kind |-> "none", w |-> DirectWorker, pc |-> "idle", attempt |-> 0, n |-> 0,
           res |-> "none", ret |-> "none", gres |-> "none", headersSent |-> FALSE,
           statusCode |-> 200, sink |-> << >>, reads |-> << >>, emsg |-> << >>,
           err |-> "none", firstErr |-> "none", writes |-> 0, wrote |-> 0,
           sinceFail |-> "none", marked |-> FALSE, retryOn |-> "none", served |-> FALSE,
           sinceTimeout |-> "none", silent |-> FALSE, deadAtRet |-> FALSE, upAtRet |-> FALSE,
           foundDead |-> FALSE, req |-> << >>, slowAt |-> FALSE, prefixesAt |-> << >>]

\* sink is the sequence of calls streamInternal has made on its
\* http.ResponseWriter, emsg the text of the error it returned.  The fields
\* of a call record beyond the code's own locals (pc, attempt, n, headersSent,
\* statusCode, the results) are history: reads the frames streamInternal has
\* read from stdout; err/firstErr the error of the current
\* and of the first attempt; writes/wrote the request-frame writes attempted
\* and completed; sinceFail whether the worker has spawned a child since this
\* call's first attempt failed; marked that the call ran markDead after that
\* failure; retryOn the value of sinceFail at the second write; served whether
\* the response was read from the child that is still the worker's current
\* one; sinceTimeout whether the worker has spawned a child since this call
\* timed out; silent that stdout held no frame when the timer fired;
\* deadAtRet/upAtRet the flag and the child when the timeout returned;
\* foundDead that the call found the worker dead.

\* NewWorker for every worker of both pools: a running child, not dead.
WrkStart(maxReq, timeout) ==
    /\ maxRequests = maxReq
    /\ requestTimeout = timeout
    /\ mu = [w \in Workers |-> 0]
    /\ dead = [w \in Workers |-> FALSE]
    /\ requestCount = [w \in Workers |-> 0]
    /\ childUp = [w \in Workers |-> TRUE]
    /\ childReq = [w \in Workers |-> << >>]
    /\ pipe = [w \in Workers |-> << >>]
    /\ leaked = [w \in Workers |-> 0]
    /\ call = [c \in Calls |-> NoCall]
    /\ nextFast = 0
    /\ nextSlow = 0
    /\ overlap = FALSE

WrkInit == \E maxReq \in MaxRequestsChoices, timeout \in TimeoutChoices : WrkStart(maxReq, timeout)

\* Workers without recycling and without a timeout: the workers in the
\* specifications that do not drive them, and the settings of the server in
\* the dispatch specification.
WrkIdle == WrkStart(0, 0)

\* Text is a sequence of pieces, concatenated with \o.  A header value of a
\* frame's JSON is a string or an array of strings.
StringValue(txt) == [list |-> FALSE, vals |-> <<txt>>]

ListValue(txts) == [list |-> TRUE, vals |-> txts]

\* The frame a child writes for one element of a script: its JSON fields
\* type, status, headers, data and error, and the request it answers.
\* "badlen" stands for a frame declaring a length of 0 or more than 10 MiB,
\* "badjson" for a payload that is not JSON.
Frame(t, c) ==
    [t |-> CASE t \in {"hdata", "hlist", "hplain"} -> "headers"
             [] t = "empty" -> "chunk"
             [] OTHER -> t,
     rid |-> c,
     status |-> CASE t = "hdata" -> 201
                  [] t = "hlist" -> 200
                  [] OTHER -> 0,
     hdrs |-> CASE t \in {"headers", "hdata"} ->
                     <<[k |-> "Content-Type", v |-> StringValue(<<"t">>)]>>
                [] t = "hlist" ->
                     <<[k |-> "X-Test", v |-> ListValue(<< <<"a">>, <<"b">> >>)],
                       [k |-> "Set-Cookie", v |-> ListValue(<< <<"c">>, <<"d">> >>)],
                       [k |-> "X-Empty", v |-> ListValue(<< >>)]>>
                [] OTHER -> << >>,
     data |-> CASE t = "hdata" -> <<"h">>
                [] t = "chunk" -> <<"x">>
                [] OTHER -> << >>,
     err |-> IF t = "error" THEN <<"boom">> ELSE << >>]

\* Worker.markDead: sets the flag and nothing else.
markDead(w) == [dead EXCEPT ![w] = TRUE]

\* isBrokenPipe on the errors a read or write of the child's pipes produces:
\* io.EOF, io.ErrUnexpectedEOF, "write |1: ..." and "read |0: ..." are of the
\* class; a JSON error and the timeout error are not.
isBrokenPipeRetryAll(err) == err # "none"
isBrokenPipe(err) == err \in {"eof", "unexpected_eof", "write_pipe", "read_pipe"}

\* Handle, lines 158-164, on an error of handleRequest: a broken-pipe-class
\* error goes on to markDead and the next attempt, any other error is returned.
AfterError(r, err) ==
    IF isBrokenPipe(err)
    THEN [r EXCEPT !.pc = "h_err", !.err = err,
                   !.firstErr = IF r.attempt = 0 THEN err ELSE @,
                   !.sinceFail = IF r.attempt = 0 THEN "failed" ELSE @]
    ELSE [r EXCEPT !.pc = "done", !.err = err, !.res = err]

\* Process.Kill and Wait on the worker's current cmd.
Killed(w) ==
    /\ childUp' = [childUp EXCEPT ![w] = FALSE]
    /\ childReq' = [childReq EXCEPT ![w] = << >>]

\* json.Marshal(payload): the "id" member of the request JSON is the
\* payload's ID field as the caller set it (a RequestPayload{} has "").
MarshalledID(r) == IF r = << >> THEN "" ELSE r.id

\* The request frame reaches the child's stdin.
WriteFrame(c, w, kind) ==
    /\ childReq' = [childReq EXCEPT ![w] =
                      Append(@, [rid |-> c, kind |-> kind, id |-> MarshalledID(call[c].req)])]
    /\ overlap' = (overlap \/ childReq[w] # << >> \/ pipe[w] # << >>)

\* A caller enters Worker.Handle on worker w.
CallHandle(c, w) ==
    /\ call[c].pc = "idle"
    /\ \A b \in Calls : b < c => call[b].pc # "idle"
    /\ call' = [call EXCEPT ![c] = [NoCall EXCEPT !.kind = "Handle", !.w = w, !.pc = "h_check"]]
    /\ UNCHANGED <<maxRequests, requestTimeout, mu, dead, requestCount, childUp,
                   childReq, pipe, leaked, nextFast, nextSlow, overlap>>

\* Handle, top of the loop: attempt < 2, then isDead().
HandleCheck(c) ==
    /\ call[c].pc = "h_check"
    /\ call' = [call EXCEPT ![c] =
                  IF call[c].attempt >= MaxAttempts
                  THEN [@ EXCEPT !.pc = "done", !.res = "unexpected_eof"]
                  ELSE IF dead[call[c].w]
                       THEN [@ EXCEPT !.pc = "h_restart", !.foundDead = TRUE]
                       ELSE [@ EXCEPT !.pc = "h_lock"]]
    /\ UNCHANGED <<maxRequests, requestTimeout, mu, dead, requestCount, childUp,
                   childReq, pipe, leaked, nextFast, nextSlow, overlap>>

\* History kept when a worker spawns a new child.
AfterSpawn(r, w) ==
    IF r.w # w THEN r
    ELSE [r EXCEPT !.served = FALSE,
                   !.sinceFail = IF @ = "failed" THEN "restarted" ELSE @,
                   !.sinceTimeout = IF @ = "timedout" THEN "restarted" ELSE @]

\* restart, lines 97-136: take mu, close the pipes, kill and reap the old
\* child, spawn a new one.  A spawn error returns with the flag still set and
\* the old pipes closed.
RestartSpawn(c) ==
    LET w == call[c].w IN
    /\ call[c].pc = "h_restart"
    /\ mu[w] = 0
    /\ childReq' = [childReq EXCEPT ![w] = << >>]
    /\ pipe' = [pipe EXCEPT ![w] = << >>]
    /\ \E ok \in BOOLEAN :
         IF ok
         THEN /\ mu' = [mu EXCEPT ![w] = c]
              /\ childUp' = [childUp EXCEPT ![w] = TRUE]
              /\ call' = [b \in Calls |->
                            IF b = c THEN [AfterSpawn(call[b], w) EXCEPT !.pc = "h_clear"]
                            ELSE AfterSpawn(call[b], w)]
         ELSE /\ mu' = mu
              /\ childUp' = [childUp EXCEPT ![w] = FALSE]
              /\ call' = [call EXCEPT ![c].pc = "done", ![c].res = "spawn_error"]
    /\ UNCHANGED <<maxRequests, requestTimeout, dead, requestCount, leaked, nextFast,
                   nextSlow, overlap>>

\* restart, lines 138-140: dead = false.
RestartClear(c) ==
    /\ call[c].pc = "h_clear"
    /\ dead' = [dead EXCEPT ![call[c].w] = FALSE]
    /\ call' = [call EXCEPT ![c].pc = "h_zero"]
    /\ UNCHANGED <<maxRequests, requestTimeout, mu, requestCount, childUp, childReq,
                   pipe, leaked, nextFast, nextSlow, overlap>>

\* restart, lines 142-146: requestCount = 0, return (mu released).
RestartZero(c) ==
    /\ call[c].pc = "h_zero"
    /\ requestCount' = [requestCount EXCEPT ![call[c].w] = 0]
    /\ mu' = [mu EXCEPT ![call[c].w] = 0]
    /\ call' = [call EXCEPT ![c].pc = "h_lock"]
    /\ UNCHANGED <<maxRequests, requestTimeout, dead, childUp, childReq, pipe, leaked,
                   nextFast, nextSlow, overlap>>

\* handleRequest, lines 191-212: take mu and write the request frame.  A
\* write to a child that is gone fails with "write |1: ..." and returns.
HandleWrite(c) ==
    LET w == call[c].w
        r0 == call[c]
        second == call[c].writes = 1 IN
    /\ call[c].pc = "h_lock"
    /\ mu[w] = 0
    /\ IF childUp[w]
       THEN /\ WriteFrame(c, w, "Handle")
            /\ mu' = [mu EXCEPT ![w] = c]
            /\ call' = [call EXCEPT ![c].pc = "h_wait", ![c].writes = @ + 1,
                                    ![c].wrote = @ + 1,
                                    ![c].retryOn = IF second THEN call[c].sinceFail ELSE @]
       ELSE /\ call' = [call EXCEPT ![c] =
                          AfterError([r0 EXCEPT !.writes = @ + 1,
                                               !.retryOn = IF second THEN r0.sinceFail ELSE @],
                                     "write_pipe")]
            /\ UNCHANGED <<mu, childReq, overlap>>
    /\ UNCHANGED <<maxRequests, requestTimeout, dead, requestCount, childUp, pipe,
                   leaked, nextFast, nextSlow>>

\* What handleRequest's reader makes of the frame at the head of stdout: a
\* declared length of 0 or more than 10 MiB is io.ErrUnexpectedEOF, a payload
\* that is not JSON is the decoder's error, any JSON object decodes into a
\* ResponsePayload.
ReadOutcome(t) ==
    IF t = "badlen" THEN "unexpected_eof"
    ELSE IF t = "badjson" THEN "json_error"
    ELSE "none"

\* handleRequest, lines 221-257 and 269-270: the reader delivers its result
\* and handleRequest returns it, releasing mu.
HandleRead(c) ==
    LET w == call[c].w IN
    /\ call[c].pc = "h_wait"
    /\ \/ /\ pipe[w] # << >>
          /\ pipe' = [pipe EXCEPT ![w] = Tail(@)]
          /\ LET f == Head(pipe[w])
                 err == ReadOutcome(f.t) IN
             call' = [call EXCEPT ![c] =
                        IF err = "none"
                        THEN [@ EXCEPT !.pc = "h_count", !.served = TRUE]
                        ELSE AfterError(@, err)]
       \/ /\ pipe[w] = << >>
          /\ ~childUp[w]
          /\ pipe' = pipe
          /\ call' = [call EXCEPT ![c] = AfterError(@, "eof")]
    /\ mu' = [mu EXCEPT ![w] = 0]
    /\ UNCHANGED <<maxRequests, requestTimeout, dead, requestCount, childUp, childReq,
                   leaked, nextFast, nextSlow, overlap>>

\* Faulty variant of TimeoutMark: the timeout path forgets markDead.
TimeoutMarkNone(w) == dead

\* handleRequest, line 260: the timeout path's markDead.
TimeoutMark(w) == markDead(w)

\* handleRequest, lines 258-265: the timer fires first.  Under mu: markDead,
\* kill and reap the child, return the timeout error; the reader goroutine
\* stays behind.
HandleTimeout(c) ==
    LET w == call[c].w IN
    /\ requestTimeout > 0
    /\ call[c].pc = "h_wait"
    /\ dead' = TimeoutMark(w)
    /\ Killed(w)
    /\ leaked' = [leaked EXCEPT ![w] = @ + 1]
    /\ mu' = [mu EXCEPT ![w] = 0]
    /\ call' = [call EXCEPT ![c] =
                  AfterError([@ EXCEPT !.sinceTimeout = "timedout", !.silent = (pipe[w] = << >>),
                                       !.deadAtRet = dead'[w],
                                       !.upAtRet = childUp'[w]], "timeout")]
    /\ UNCHANGED <<maxRequests, requestTimeout, requestCount, pipe, nextFast, nextSlow,
                   overlap>>

\* Handle, lines 159-161: markDead and continue with the next attempt.
HandleMarkRetry(c) ==
    LET w == call[c].w IN
    /\ call[c].pc = "h_err"
    /\ dead' = markDead(w)
    /\ call' = [call EXCEPT ![c].pc = "h_check", ![c].attempt = @ + 1, ![c].err = "none",
                            ![c].marked = TRUE]
    /\ UNCHANGED <<maxRequests, requestTimeout, mu, requestCount, childUp, childReq,
                   pipe, leaked, nextFast, nextSlow, overlap>>

\* Handle, line 167: n := atomic.AddUint64(&w.requestCount, 1).  The counter
\* is 64 bits wide and restarts from 0 with every child; it stays far below
\* its width for any number of calls explored here.
HandleCount(c) ==
    LET w == call[c].w
        n == requestCount[w] + 1 IN
    /\ call[c].pc = "h_count"
    /\ requestCount' = [requestCount EXCEPT ![w] = n]
    /\ call' = [call EXCEPT ![c].pc = "h_mark", ![c].n = n]
    /\ UNCHANGED <<maxRequests, requestTimeout, mu, dead, childUp, childReq, pipe,
                   leaked, nextFast, nextSlow, overlap>>

\* Faulty variant of ReachedMax: recycles one response late.
ReachedMaxLate(n) == maxRequests > 0 /\ n > maxRequests

\* Handle, line 168: w.maxRequests > 0 && int(n) >= w.maxRequests.
ReachedMax(n) == maxRequests > 0 /\ n >= maxRequests

\* Handle, lines 168-172: markDead when the count has reached maxRequests,
\* then return the response.
HandleReturn(c) ==
    LET w == call[c].w IN
    /\ call[c].pc = "h_mark"
    /\ dead' = IF ReachedMax(call[c].n) THEN markDead(w) ELSE dead
    /\ call' = [call EXCEPT ![c].pc = "done", ![c].res = "ok", ![c].n = 0]
    /\ UNCHANGED <<maxRequests, requestTimeout, mu, requestCount, childUp, childReq,
                   pipe, leaked, nextFast, nextSlow, overlap>>

\* A caller enters Worker.Stream on worker w: the goroutine running
\* streamInternal starts and the caller waits for its result or the timer.
CallStream(c, w) ==
    /\ call[c].pc = "idle"
    /\ \A b \in Calls : b < c => call[b].pc # "idle"
    /\ call' = [call EXCEPT ![c] = [NoCall EXCEPT !.kind = "Stream", !.w = w, !.pc = "s_lock",
                                                   !.ret = "wait"]]
    /\ UNCHANGED <<maxRequests, requestTimeout, mu, dead, requestCount, childUp,
                   childReq, pipe, leaked, nextFast, nextSlow, overlap>>

\* streamInternal, lines 306-334: take mu; if the worker is dead call
\* restart, whose first statement locks mu again, which this goroutine already
\* holds (sync.Mutex is not reentrant): the goroutine stays there, holding mu.
\* Otherwise write the request frame; a write error is returned as it is.
StreamBegin(c) ==
    LET w == call[c].w IN
    /\ call[c].pc = "s_lock"
    /\ mu[w] = 0
    /\ IF dead[w]
       THEN /\ mu' = [mu EXCEPT ![w] = c]
            /\ call' = [call EXCEPT ![c].pc = "s_stuck", ![c].foundDead = TRUE]
            /\ UNCHANGED <<childReq, overlap>>
       ELSE IF childUp[w]
            THEN /\ WriteFrame(c, w, "Stream")
                 /\ mu' = [mu EXCEPT ![w] = c]
                 /\ call' = [call EXCEPT ![c].pc = "s_read", ![c].writes = @ + 1,
                                         ![c].wrote = @ + 1]
            ELSE /\ call' = [call EXCEPT ![c].pc = "s_done", ![c].gres = "write_pipe",
                                         ![c].writes = @ + 1]
                 /\ UNCHANGED <<mu, childReq, overlap>>
    /\ UNCHANGED <<maxRequests, requestTimeout, dead, requestCount, childUp, pipe,
                   leaked, nextFast, nextSlow>>

\* streamInternal, lines 339-416: read one frame and act on it.  sinkOk is
\* whether rw.Write succeeds (the client is still connected).
StreamErrorf(txt) == <<"stream error from worker: ">> \o txt

\* fmt.Errorf("unknown stream frame type: %q", frame.Type): the type between
\* double quotes.
UnknownTypeErrorf(t) == <<"unknown stream frame type: ", "\"", t, "\"">>

\* json.Unmarshal(frameJSON, &frame) with StreamFrame.Headers a
\* map[string]string: a payload that is not JSON and a header whose value is
\* an array are both errors.
Unmarshals(f) == f.t # "badjson" /\ \A i \in 1..Len(f.hdrs) : ~f.hdrs[i].v.list

\* The frame makes streamInternal call rw.Write.
WritesData(f) == f.t \in {"headers", "chunk"} /\ Unmarshals(f) /\ f.data # << >>

\* Calls on the http.ResponseWriter.
SinkSet(k, txt) == [op |-> "set", k |-> k, code |-> 0, data |-> txt]

SinkStatus(code) == [op |-> "status", k |-> "", code |-> code, data |-> << >>]

SinkWrite(txt) == [op |-> "write", k |-> "", code |-> 0, data |-> txt]

\* The "headers" case, lines 371-390.
HeadersFrameStep(r, f, sinkOk) ==
    LET code == IF f.status # 0 THEN f.status ELSE r.statusCode
        sets == [i \in 1..Len(f.hdrs) |-> SinkSet(f.hdrs[i].k, f.hdrs[i].v.vals[1])]
        sent == [r EXCEPT !.headersSent = TRUE, !.statusCode = code,
                          !.sink = @ \o sets \o <<SinkStatus(code)>>]
    IN
    IF f.data = << >> THEN sent
    ELSE IF sinkOk THEN [sent EXCEPT !.sink = Append(@, SinkWrite(f.data))]
    ELSE [sent EXCEPT !.pc = "s_done", !.gres = "sink_error"]

\* Faulty variant of ChunkFrameStep: a first chunk is written without
\* rw.WriteHeader.
ChunkFrameStepNoStatus(r, f, sinkOk) ==
    LET sent == [r EXCEPT !.headersSent = TRUE] IN
    IF f.data = << >> THEN sent
    ELSE IF sinkOk THEN [sent EXCEPT !.sink = Append(@, SinkWrite(f.data))]
    ELSE [sent EXCEPT !.pc = "s_done", !.gres = "sink_error"]

\* The "chunk" case, lines 392-404.
ChunkFrameStep(r, f, sinkOk) ==
    LET sent == [r EXCEPT !.headersSent = TRUE,
                          !.sink = IF r.headersSent THEN @
                                   ELSE Append(@, SinkStatus(r.statusCode))]
    IN
    IF f.data = << >> THEN sent
    ELSE IF sinkOk THEN [sent EXCEPT !.sink = Append(@, SinkWrite(f.data))]
    ELSE [sent EXCEPT !.pc = "s_done", !.gres = "sink_error"]

\* Faulty variant of TerminalFrameStep: an error frame does not end the
\* stream.
TerminalFrameStepErrorGoesOn(r, f) ==
    CASE f.t = "end"   -> [r EXCEPT !.pc = "s_done", !.gres = "ok", !.served = TRUE]
      [] f.t = "error" -> r
      [] OTHER         -> [r EXCEPT !.pc = "s_done", !.gres = "unknown_frame",
                                    !.emsg = UnknownTypeErrorf(f.t)]

\* The "end", "error" and default cases, lines 406-414.
TerminalFrameStep(r, f) ==
    CASE f.t = "end"   -> [r EXCEPT !.pc = "s_done", !.gres = "ok", !.served = TRUE]
      [] f.t = "error" -> [r EXCEPT !.pc = "s_done", !.gres = "stream_error",
                                    !.emsg = StreamErrorf(f.err)]
      [] OTHER         -> [r EXCEPT !.pc = "s_done", !.gres = "unknown_frame",
                                    !.emsg = UnknownTypeErrorf(f.t)]

StreamFrameStep(r, f, sinkOk) ==
    LET rd == [r EXCEPT !.reads = Append(@, f)] IN
    CASE f.t = "badlen"  -> [rd EXCEPT !.pc = "s_done", !.gres = "unexpected_eof"]
      [] f.t # "badlen" /\ ~Unmarshals(f) ->
                            [rd EXCEPT !.pc = "s_done", !.gres = "json_error"]
      [] Unmarshals(f) /\ f.t = "headers" -> HeadersFrameStep(rd, f, sinkOk)
      [] Unmarshals(f) /\ f.t = "chunk"   -> ChunkFrameStep(rd, f, sinkOk)
      [] OTHER -> TerminalFrameStep(rd, f)

StreamRead(c) ==
    LET w == call[c].w IN
    /\ call[c].pc = "s_read"
    /\ \/ /\ pipe[w] # << >>
          /\ pipe' = [pipe EXCEPT ![w] = Tail(@)]
          /\ \E sinkOk \in BOOLEAN :
               LET f == Head(pipe[w])
                   r == StreamFrameStep(call[c], f, sinkOk) IN
               /\ ~WritesData(f) => sinkOk
               /\ call' = [call EXCEPT ![c] = r]
               /\ dead' = IF f.t = "badlen" \/ ~Unmarshals(f) THEN markDead(w) ELSE dead
               /\ mu' = IF r.pc = "s_done" THEN [mu EXCEPT ![w] = 0] ELSE mu
       \/ /\ pipe[w] = << >>
          /\ ~childUp[w]
          /\ pipe' = pipe
          /\ dead' = markDead(w)
          /\ mu' = [mu EXCEPT ![w] = 0]
          /\ call' = [call EXCEPT ![c].pc = "s_done", ![c].gres = "eof"]
    /\ UNCHANGED <<maxRequests, requestTimeout, requestCount, childUp, childReq, leaked,
                   nextFast, nextSlow, overlap>>

\* Stream, lines 287-288 and 300-301: the caller receives the goroutine's result.
StreamReturn(c) ==
    /\ call[c].ret = "wait"
    /\ call[c].pc = "s_done"
    /\ call' = [call EXCEPT ![c].ret = "returned", ![c].res = call[c].gres]
    /\ UNCHANGED <<maxRequests, requestTimeout, mu, dead, requestCount, childUp,
                   childReq, pipe, leaked, nextFast, nextSlow, overlap>>

\* Stream, lines 289-291: the timer fires first; markDead.
StreamTimeoutMark(c) ==
    /\ requestTimeout > 0
    /\ call[c].ret = "wait"
    /\ dead' = markDead(call[c].w)
    /\ call' = [call EXCEPT ![c].ret = "t_kill"]
    /\ UNCHANGED <<maxRequests, requestTimeout, mu, requestCount, childUp, childReq,
                   pipe, leaked, nextFast, nextSlow, overlap>>

\* Stream, lines 292-296: kill and reap w.cmd, read without holding mu, and
\* return the timeout error; the goroutine goes on.
StreamTimeoutKill(c) ==
    /\ call[c].ret = "t_kill"
    /\ Killed(call[c].w)
    /\ call' = [call EXCEPT ![c].ret = "returned", ![c].res = "timeout"]
    /\ UNCHANGED <<maxRequests, requestTimeout, mu, dead, requestCount, pipe, leaked,
                   nextFast, nextSlow, overlap>>

\* The child answers the oldest request on its stdin with one of the scripts
\* for a buffered (hs) or a streaming (ss) request.
Reply(w, hs, ss) ==
    /\ childUp[w]
    /\ childReq[w] # << >>
    /\ LET rq == Head(childReq[w]) IN
       \E s \in (IF rq.kind = "Handle" THEN hs ELSE ss) :
          pipe' = [pipe EXCEPT ![w] = @ \o [i \in 1..Len(s) |-> Frame(s[i], rq.rid)]]
    /\ childReq' = [childReq EXCEPT ![w] = Tail(@)]
    /\ UNCHANGED <<maxRequests, requestTimeout, mu, dead, requestCount, childUp, leaked,
                   call, nextFast, nextSlow, overlap>>

ChildReply(w) == Reply(w, HandleScripts, StreamScripts)

\* The streams explored frame by frame: headers with and without data and
\* status, chunks with and without data, a chunk before any headers, headers
\* after a chunk, an error frame, an unknown type, frames after a terminal
\* one, headers with array values, and malformed frames.
FrameScripts == { <<"hdata", "chunk", "empty", "chunk", "end">>,
                  <<"chunk", "hdata", "end">>,
                  <<"empty", "chunk", "end", "chunk">>,
                  <<"hplain", "chunk", "error", "end">>,
                  <<"headers", "bogus", "chunk">>,
                  <<"hlist", "end">>,
                  <<"chunk", "badjson">>,
                  <<"badlen">> }

ChildStream(w) == Reply(w, HandleScripts, FrameScripts)

\* The child process exits on its own; what it had written stays readable.
ChildCrash(w) ==
    /\ childUp[w]
    /\ Killed(w)
    /\ UNCHANGED <<maxRequests, requestTimeout, mu, dead, requestCount, pipe, leaked,
                   call, nextFast, nextSlow, overlap>>

\* A reader goroutine left behind by a timed-out handleRequest: its read of
\* w.stdout races with restart's assignment of the field, so it either sees the
\* killed child's pipe and ends, or takes the next frame of the current pipe.
LeakedRead(w) ==
    /\ leaked[w] > 0
    /\ leaked' = [leaked EXCEPT ![w] = @ - 1]
    /\ \/ pipe' = pipe
       \/ /\ pipe[w] # << >>
          /\ pipe' = [pipe EXCEPT ![w] = Tail(@)]
    /\ UNCHANGED <<maxRequests, requestTimeout, mu, dead, requestCount, childUp,
                   childReq, call, nextFast, nextSlow, overlap>>

\* Server.ForceRecycleWorkers / the hot-reload watcher, for one worker of
\* markAllWorkersDead's loops.
RecycleMark(w) ==
    /\ ~dead[w]
    /\ dead' = markDead(w)
    /\ UNCHANGED <<maxRequests, requestTimeout, mu, requestCount, childUp, childReq,
                   pipe, leaked, call, nextFast, nextSlow, overlap>>

\* The requests sent through Server.Dispatch and Server.DispatchStream, one
\* built without an ID and one with the ID its caller chose, and the sample
\* RecordLatency is fed meanwhile (600 ms on a path below "/r").
WithID(r, id) == [path |-> r.path, method |-> r.method, bodyLen |-> r.bodyLen, id |-> id]

DispRequests == { WithID(Req(<<"/","r","/","s">>, <<"G","E","T">>, 3), ""),
                  WithID(Req(<<"*">>, <<"p","u","t">>, 3), "u1") }
DispRecPath == <<"/","r","/","d">>
DispLatency == 600

\* Faulty variant of PoolFor: every request goes to the fast pool.
PoolForFastOnly(slow) == FastWorkers

\* Server.Dispatch / Server.DispatchStream: the pool for a classification.
PoolFor(slow) == IF slow THEN SlowWorkers ELSE FastWorkers

\* WorkerPool.Dispatch / NextWorker: i := atomic.AddUint32(&p.next, 1);
\* p.workers[i%uint32(len(p.workers))].  An empty pool makes the modulo panic.
\* The 32-bit counter stays far below its width for the calls explored here.
PoolPick(c, r, kind) ==
    LET slow == IsSlowRequest(r)
        pool == PoolFor(slow)
        i == (IF slow THEN nextSlow ELSE nextFast) + 1
    IN
    /\ call[c].pc = "idle"
    /\ \A b \in Calls : b < c => call[b].pc # "idle"
    /\ nextSlow' = IF slow THEN i ELSE nextSlow
    /\ nextFast' = IF slow THEN nextFast ELSE i
    /\ call' = [call EXCEPT ![c] =
                  IF Len(pool) = 0
                  THEN [NoCall EXCEPT !.kind = kind, !.pc = "done", !.res = "panic", !.req = r,
                                      !.slowAt = slow, !.prefixesAt = routePrefixes]
                  ELSE [NoCall EXCEPT !.kind = kind, !.w = pool[(i % Len(pool)) + 1],
                                      !.pc = IF kind = "Handle" THEN "h_check" ELSE "s_lock",
                                      !.ret = IF kind = "Handle" THEN "none" ELSE "wait",
                                      !.req = r, !.slowAt = slow,
                                      !.prefixesAt = routePrefixes]]
    /\ UNCHANGED <<maxRequests, requestTimeout, mu, dead, requestCount, childUp,
                   childReq, pipe, leaked, overlap>>

\* Server.Dispatch(req)
Dispatch(c, r) == PoolPick(c, r, "Handle")

\* Server.DispatchStream(req, rw)
DispatchStream(c, r) == PoolPick(c, r, "Stream")

(***************************************************************************)
(* Hot reload and forced recycling (src/server/server.go, pool.go)         *)
(***************************************************************************)

\* The directories EnableHotReload tries to watch, the operation bits of an
\* fsnotify event, and the single events delivered on watcher.Events.
WatchDirs == {"php", "routes"}
OpBits == {"create", "write", "remove", "rename", "chmod"}
EventOps == { {b} : b \in OpBits }

\* Number of file-system events delivered, and of ForceRecycleWorkers calls.
MaxEvents == 2
MaxForce == 2

VARIABLES
    watched,        \* directories that exist and that watcher.Add accepted
    fsEvents,       \* the event offered on watcher.Events (at most one)
    emitted,        \* events delivered so far
    watchPos,       \* watcher goroutine: 0 in select, k marking worker k
    unmarked,       \* history: workers not marked since the last change event
    forcePos,       \* ForceRecycleWorkers caller: 0 outside, k marking worker k
    forceCalls,     \* ForceRecycleWorkers calls begun
    forceDone,      \* ForceRecycleWorkers calls returned
    revived         \* history: workers restarted since they were last marked

hotVars == <<watched, fsEvents, emitted, watchPos, unmarked, forcePos, forceCalls,
             forceDone, revived>>

\* markAllWorkersDead visits the fast pool's workers, then the slow pool's.
AllWorkers == FastWorkers \o SlowWorkers

WorkerIds == { AllWorkers[i] : i \in 1..Len(AllWorkers) }

\* EnableHotReload: a directory is watched when it exists, is a directory and
\* watcher.Add succeeds; the goroutine starts in its select.
HotStart(dirs) ==
    /\ watched = dirs
    /\ fsEvents = << >>
    /\ emitted = 0
    /\ watchPos = 0
    /\ unmarked = {}
    /\ forcePos = 0
    /\ forceCalls = 0
    /\ forceDone = 0
    /\ revived = {}

HotInit == \E dirs \in SUBSET WatchDirs : HotStart(dirs)

\* A server on which EnableHotReload was not called.
HotIdle == HotStart({})

\* Faulty variant of OpTriggers: rename events are ignored.
OpTriggersNoRename(op) == op \cap {"write", "create", "remove"} # {}

\* ev.Op&(fsnotify.Write|fsnotify.Create|fsnotify.Remove|fsnotify.Rename) != 0
OpTriggers(op) == op \cap {"write", "create", "remove", "rename"} # {}

\* The file system: an event in a watched directory is offered on
\* watcher.Events (the channel holds one event until the goroutine takes it).
FsEvent(dir, op) ==
    /\ dir \in watched
    /\ emitted < MaxEvents
    /\ fsEvents = << >>
    /\ fsEvents' = <<op>>
    /\ emitted' = emitted + 1
    /\ unmarked' = IF op \cap {"write", "create", "remove", "rename"} # {}
                   THEN WorkerIds ELSE unmarked
    /\ UNCHANGED <<watched, watchPos, forcePos, forceCalls, forceDone, revived>>

\* The watcher goroutine's select: case ev := <-watcher.Events.
WatcherTake ==
    /\ watchPos = 0
    /\ fsEvents # << >>
    /\ fsEvents' = Tail(fsEvents)
    /\ watchPos' = IF OpTriggers(Head(fsEvents)) /\ Len(AllWorkers) > 0 THEN 1 ELSE 0
    /\ unmarked' = IF OpTriggers(Head(fsEvents)) /\ Len(AllWorkers) = 0 THEN {} ELSE unmarked
    /\ UNCHANGED <<watched, emitted, forcePos, forceCalls, forceDone, revived>>

\* Faulty variant of MarkAt: the loop over the slow pool marks nothing.
MarkAtFastOnly(k) ==
    IF k <= Len(FastWorkers) THEN [dead EXCEPT ![AllWorkers[k]] = TRUE] ELSE dead

\* One iteration of markAllWorkersDead's loops: w.markDead() for worker k,
\* and the position after it (0 once the slow pool's last worker is marked).
MarkAt(k) == [dead EXCEPT ![AllWorkers[k]] = TRUE]

AfterMark(k) == IF k = Len(AllWorkers) THEN 0 ELSE k + 1

\* The watcher goroutine inside markAllWorkersDead.
WatcherMark ==
    /\ watchPos \in 1..Len(AllWorkers)
    /\ dead' = MarkAt(watchPos)
    /\ watchPos' = AfterMark(watchPos)
    /\ unmarked' = unmarked \ {AllWorkers[watchPos]}
    /\ revived' = revived \ {AllWorkers[watchPos]}
    /\ UNCHANGED <<watched, fsEvents, emitted, forcePos, forceCalls, forceDone>>
    /\ UNCHANGED <<maxRequests, requestTimeout, mu, requestCount, childUp, childReq,
                   pipe, leaked, call, nextFast, nextSlow, overlap>>

\* Server.ForceRecycleWorkers is called.
ForceBegin ==
    /\ forcePos = 0
    /\ forceCalls < MaxForce
    /\ forceCalls' = forceCalls + 1
    /\ forcePos' = IF Len(AllWorkers) > 0 THEN 1 ELSE 0
    /\ forceDone' = IF Len(AllWorkers) > 0 THEN forceDone ELSE forceDone + 1
    /\ UNCHANGED <<watched, fsEvents, emitted, watchPos, unmarked, revived>>

\* ForceRecycleWorkers inside markAllWorkersDead; it returns after the last
\* worker.
ForceMark ==
    /\ forcePos \in 1..Len(AllWorkers)
    /\ dead' = MarkAt(forcePos)
    /\ forcePos' = AfterMark(forcePos)
    /\ forceDone' = IF AfterMark(forcePos) = 0 THEN forceDone + 1 ELSE forceDone
    /\ revived' = revived \ {AllWorkers[forcePos]}
    /\ UNCHANGED <<watched, fsEvents, emitted, watchPos, unmarked, forceCalls>>
    /\ UNCHANGED <<maxRequests, requestTimeout, mu, requestCount, childUp, childReq,
                   pipe, leaked, call, nextFast, nextSlow, overlap>>

\* restart()'s w.dead = false, with the history of restarted workers.
RestartRevive(c) ==
    /\ RestartClear(c)
    /\ revived' = revived \cup {call[c].w}
    /\ UNCHANGED <<watched, fsEvents, emitted, watchPos, unmarked, forcePos, forceCalls,
                   forceDone>>

\* WorkerPool.Stats
Stats(pool) ==
    [Workers |-> Len(pool),
     DeadWorkers |-> Cardinality({ i \in 1..Len(pool) : dead[pool[i]] })]

\* Server.Health
Health == [Fast |-> Stats(FastWorkers), Slow |-> Stats(SlowWorkers)]

(***************************************************************************)
(* Length-prefixed frames (src/server/worker.go, helpers_test.go)          *)
(***************************************************************************)

\* 10*1024*1024, the longest frame a reader accepts.
MaxFrameLen == 10485760

\* Number of frames sent on one pipe.
MaxFrames == 2

\* A byte string is a sequence of runs [b |-> byte, n |-> count]; the
\* payloads sent are JSON texts of these lengths.
Run(b, n) == [b |-> b, n |-> n]

Payloads == { << >>,
              <<Run(123, 1)>>,
              <<Run(123, 1), Run(125, 1)>>,
              <<Run(123, 1), Run(34, 253), Run(125, 1)>>,
              <<Run(123, 1), Run(34, 254), Run(125, 1)>>,
              <<Run(123, 1), Run(34, 65534), Run(125, 1)>>,
              <<Run(123, 1), Run(34, MaxFrameLen - 2), Run(125, 1)>>,
              <<Run(123, 1), Run(34, MaxFrameLen - 1), Run(125, 1)>> }

VARIABLES
    fsent,      \* history: the payloads whose frames were written, in order
    fout,       \* sender: the payload whose header is written and whose bytes are not
    fwire,      \* bytes written to the pipe and not read yet
    fin,        \* reader: [pc |-> "hdr" | "body" | "stopped", n |-> declared length]
    fgot        \* what the reader has decoded, frame by frame

frmVars == <<fsent, fout, fwire, fin, fgot>>

FrmInit ==
    /\ fsent = << >>
    /\ fout = << >>
    /\ fwire = << >>
    /\ fin = [pc |-> "hdr", n |-> 0]
    /\ fgot = << >>

RECURSIVE Size(_)
\* len(bytes)
Size(rs) == IF rs = << >> THEN 0 ELSE Head(rs).n + Size(Tail(rs))

RECURSIVE Norm(_)
\* The byte string of a sequence of runs: no empty run, no two adjacent runs
\* of the same byte.
Norm(rs) ==
    IF rs = << >> THEN << >>
    ELSE IF Head(rs).n = 0 THEN Norm(Tail(rs))
    ELSE LET rest == Norm(Tail(rs)) IN
         IF rest # << >> /\ Head(rest).b = Head(rs).b
         THEN <<Run(Head(rs).b, Head(rs).n + Head(rest).n)>> \o Tail(rest)
         ELSE <<Head(rs)>> \o rest

RECURSIVE Take(_, _)
\* The first n bytes of a byte string of at least n bytes.
Take(rs, n) ==
    IF n = 0 \/ rs = << >> THEN << >>
    ELSE IF Head(rs).n <= n THEN <<Head(rs)>> \o Take(Tail(rs), n - Head(rs).n)
    ELSE <<Run(Head(rs).b, n)>>

RECURSIVE Drop(_, _)
\* What is left after the first n bytes.
Drop(rs, n) ==
    IF n = 0 \/ rs = << >> THEN rs
    ELSE IF Head(rs).n <= n THEN Drop(Tail(rs), n - Head(rs).n)
    ELSE <<Run(Head(rs).b, Head(rs).n - n)>> \o Tail(rs)

RECURSIVE Bytes(_)
\* The bytes of a short byte string, one by one.
Bytes(rs) ==
    IF rs = << >> THEN << >>
    ELSE IF Head(rs).n = 0 THEN Bytes(Tail(rs))
    ELSE <<Head(rs).b>> \o Bytes(<<Run(Head(rs).b, Head(rs).n - 1)>> \o Tail(rs))

\* header := []byte{byte(length >> 24), byte(length >> 16), byte(length >> 8),
\* byte(length)} with length := uint32(len(jsonBytes)); the conversion to
\* uint32 changes nothing for the lengths sent here, all below 2^24.
EncodeLen(n) ==
    <<(n \div 16777216) % 256, (n \div 65536) % 256, (n \div 256) % 256, n % 256>>

\* Faulty variant of DecodeLen: only the two low bytes are used.
DecodeLenLow(hdr) == hdr[3] * 256 + hdr[4]

\* (uint32(hdr[0]) << 24) | (uint32(hdr[1]) << 16) | (uint32(hdr[2]) << 8) |
\* uint32(hdr[3])
DecodeLen(hdr) == hdr[1] * 16777216 + hdr[2] * 65536 + hdr[3] * 256 + hdr[4]

\* w.stdin.Write(header)
SendHeader(pl) ==
    /\ fout = << >>
    /\ Len(fsent) < MaxFrames
    /\ LET hdr == EncodeLen(Size(pl)) IN
       fwire' = fwire \o [i \in 1..4 |-> Run(hdr[i], 1)]
    /\ fsent' = Append(fsent, pl)
    /\ fout' = <<pl>>
    /\ UNCHANGED <<fin, fgot>>

\* w.stdin.Write(jsonBytes)
SendPayload ==
    /\ fout # << >>
    /\ fwire' = fwire \o fout[1]
    /\ fout' = << >>
    /\ UNCHANGED <<fsent, fin, fgot>>

\* The reader: io.ReadFull of the 4 header bytes, the length, and the check
\* of the length (0 or more than 10 MiB ends the reading).
RecvHeader ==
    /\ fin.pc = "hdr"
    /\ Size(fwire) >= 4
    /\ LET n == DecodeLen(Bytes(Take(fwire, 4))) IN
       IF n = 0 \/ n > MaxFrameLen
       THEN /\ fin' = [pc |-> "stopped", n |-> n]
            /\ fgot' = Append(fgot, [ok |-> FALSE, n |-> n, payload |-> << >>])
       ELSE /\ fin' = [pc |-> "body", n |-> n]
            /\ fgot' = fgot
    /\ fwire' = Drop(fwire, 4)
    /\ UNCHANGED <<fsent, fout>>

\* The reader: io.ReadFull of the declared number of bytes.
RecvPayload ==
    /\ fin.pc = "body"
    /\ Size(fwire) >= fin.n
    /\ fgot' = Append(fgot, [ok |-> TRUE, n |-> fin.n, payload |-> Norm(Take(fwire, fin.n))])
    /\ fwire' = Drop(fwire, fin.n)
    /\ fin' = [pc |-> "hdr", n |-> 0]
    /\ UNCHANGED <<fsent, fout>>

\* NewServer with an empty SlowRequestConfig: the state of the classifier in
\* the specifications that do not drive it.
ClsIdle ==
    /\ routePrefixes = << >>
    /\ slowMethods = DefaultMethods
    /\ bodyThreshold = DefaultBodyThreshold
    /\ routeStats = << >>
    /\ lastReq = << >>
    /\ lastSlow = FALSE
    /\ crossed = {}
    /\ records = 0

(***************************************************************************)
(* The route lock (Server.routeMu) around the classifier's data            *)
(***************************************************************************)

\* Bound: goroutines calling RecordLatency at the same time.
MaxRecorders == 2

Recorders == 1..MaxRecorders

VARIABLES
    routeMu,        \* s.routeMu: 0 when free, else the recorder holding it
    recCall,        \* recorder -> its RecordLatency call: pc, path, d
    clsCall         \* the IsSlowRequest call in progress: pc, request, the list it ranges over

lckVars == <<routeMu, recCall, clsCall>>

NoRec == [pc |-> "idle", path |-> << >>, d |-> 0]

NoCls == [pc |-> "idle", r |-> << >>, prefixes |-> << >>]

LckInit ==
    /\ routeMu = 0
    /\ recCall = [g \in Recorders |-> NoRec]
    /\ clsCall = NoCls

\* RecordLatency, lines 276-284: the route key is computed; the goroutine
\* arrives at s.routeMu.Lock().
RecEnter(g, path, d) ==
    /\ recCall[g].pc = "idle"
    /\ recCall' = [recCall EXCEPT ![g] = [pc |-> "lock", path |-> path, d |-> d]]
    /\ UNCHANGED <<routeMu, clsCall>>
    /\ UNCHANGED clsVars

\* s.routeMu.Lock()
RecLock(g) ==
    /\ recCall[g].pc = "lock"
    /\ routeMu = 0
    /\ routeMu' = g
    /\ recCall' = [recCall EXCEPT ![g].pc = "locked"]
    /\ UNCHANGED clsCall
    /\ UNCHANGED clsVars

\* RecordLatency, lines 289-307, under the lock: the entry is updated, the
\* key is appended when it is to be promoted, and the deferred Unlock runs.
RecUpdate(g) ==
    /\ recCall[g].pc = "locked"
    /\ RecordLatency(recCall[g].path, recCall[g].d)
    /\ routeMu' = 0
    /\ recCall' = [recCall EXCEPT ![g] = NoRec]
    /\ UNCHANGED clsCall

\* The goroutine's RecordLatency call will append its key to the list.
Appends(g) ==
    LET prefix == RouteKey(recCall[g].path)
        rs == IF prefix \in DOMAIN routeStats THEN routeStats[prefix]
              ELSE [count |-> 0, total |-> 0]
    IN /\ recCall[g].pc = "locked"
       /\ ShouldPromote(rs.count + 1, rs.total + recCall[g].d)
       /\ ~hasSlowPrefix(prefix)

\* A caller enters IsSlowRequest(r); no lock is taken anywhere in it.
ClsEnter(r) ==
    /\ clsCall.pc = "idle"
    /\ clsCall' = [pc |-> "read", r |-> r, prefixes |-> << >>]
    /\ UNCHANGED <<routeMu, recCall>>
    /\ UNCHANGED clsVars

\* IsSlowRequest, line 247: `range s.slowCfg.RoutePrefixes` reads the slice
\* once.  The read is not ordered with RecordLatency's append.
ClsRead ==
    /\ clsCall.pc = "read"
    /\ clsCall' = [clsCall EXCEPT !.pc = "loop", !.prefixes = routePrefixes]
    /\ UNCHANGED <<routeMu, recCall>>
    /\ UNCHANGED clsVars

\* IsSlowRequest, lines 247-266: the loops over the list that was read and
\* over the methods, and the result.
ClsReturn ==
    /\ clsCall.pc = "loop"
    /\ lastReq' = clsCall.r
    /\ lastSlow' = IsSlowWith(clsCall.prefixes, slowMethods, bodyThreshold, clsCall.r)
    /\ clsCall' = NoCls
    /\ UNCHANGED <<routePrefixes, slowMethods, bodyThreshold, routeStats, crossed, records>>
    /\ UNCHANGED <<routeMu, recCall>>

(***************************************************************************)
(* History of the messages published and received (WSHub)                  *)
(***************************************************************************)

\* Bound: Publish calls whose messages are told apart.
MaxPublished == 3

VARIABLES
    published,      \* history: Publish call k -> its channel and the calls that had ended when it began
    subscribedAt,   \* history: client -> number of Publish calls begun when it subscribed
    received        \* history: client -> the messages its consumer took from c.Send, in order

ordVars == <<published, subscribedAt, received>>

OrdInit ==
    /\ published = << >>
    /\ subscribedAt = << >>
    /\ received = << >>

\* The Publish calls that have begun and are no longer in flight.
Ended == (1..Len(published)) \ {pubs[p].data : p \in {q \in Slots : pubs[q].active}}

\* Subscribe, with the number of Publish calls begun before it.
SubscribeNoted(ch) ==
    /\ Subscribe(ch)
    /\ subscribedAt' = MapPut(subscribedAt, Cardinality(ClientIds) + 1, Len(published))
    /\ received' = MapPut(received, Cardinality(ClientIds) + 1, << >>)
    /\ UNCHANGED published

\* Publish with a payload that names the call: the k-th call publishes k.
PublishNoted(p, ch) ==
    /\ Len(published) < MaxPublished
    /\ PublishMsg(p, ch, Len(published) + 1)
    /\ published' = Append(published, [ch |-> ch, prior |-> Ended])
    /\ UNCHANGED <<subscribedAt, received>>

\* msg := <-c.Send: the consumer takes the oldest message of the channel.
RecvNoted(c) ==
    /\ Recv(c)
    /\ received' = [received EXCEPT ![c] = Append(@, Head(wsSend[c]))]
    /\ UNCHANGED <<published, subscribedAt>>

(***************************************************************************)
(* The frontend handler for "/" (src/cmd/server/main.go)                   *)
(***************************************************************************)

\* Number of handler goroutines and of requests they take.
MaxHandlers == 2
MaxServed == 3

Handlers == 1..MaxHandlers

\* The request targets that arrive: URL path and raw query.
Targets == { [path |-> <<"/","a","/","b">>, query |-> << >>],
             [path |-> <<"/","a">>, query |-> <<"x","=","1">>] }

\* url.URL.RequestURI: the path, then "?" and the query when there is one.
RequestURI(u) ==
    IF u.query = << >> THEN u.path ELSE u.path \o <<"?">> \o u.query

\* BuildPayload: Path is the request URI, query included.
BuildPayload(u) == RequestURI(u)

\* What the worker makes of a dispatched request: a response, a 404 that
\* the static rules then serve, or an error.
Outcomes == {"ok", "static404", "error"}

VARIABLES
    hdl,            \* per handler goroutine: position and the locals payload, start
    served,         \* history: the requests whose handler has returned
    latencyCalls    \* history: the srv.RecordLatency calls of the handlers

hdlVars == <<hdl, served, latencyCalls>>

NoHdl == [pc |-> "idle", id |-> 0, path |-> << >>, stream |-> FALSE]

\* Requests the handlers have taken up so far.
Taken == Len(served) + Cardinality({h \in Handlers : hdl[h].pc # "idle"})

HdlInit ==
    /\ hdl = [h \in Handlers |-> NoHdl]
    /\ served = << >>
    /\ latencyCalls = << >>

\* Handler, up to the dispatch: a hit of tryServeStatic returns at once;
\* otherwise BuildPayload, start := time.Now(), and the X-Go-Stream header
\* chooses between DispatchStream and Dispatch.
HandlerBegin(h, u, static, stream) ==
    /\ hdl[h].pc = "idle"
    /\ Taken < MaxServed
    /\ IF static
       THEN /\ served' = Append(served, [id |-> Taken + 1, path |-> BuildPayload(u),
                                         stream |-> FALSE, outcome |-> "static",
                                         elapsed |-> 0])
            /\ hdl' = hdl
       ELSE /\ hdl' = [hdl EXCEPT ![h] = [pc |-> "dispatch", id |-> Taken + 1,
                                          path |-> BuildPayload(u), stream |-> stream]]
            /\ served' = served
    /\ UNCHANGED <<latencyCalls, clsVars>>

\* Handler, from the return of the dispatch.  Streaming: an error goes to
\* writeWorkerError and returns; otherwise elapsed := time.Since(start) and
\* srv.RecordLatency(payload.Path, elapsed).  Buffered: an error goes to
\* writeWorkerError and returns; a 404 that tryServeStatic serves returns;
\* otherwise headers, status and body are written and the request is logged.
\* The buffered path makes no call of RecordLatency.  A streamed 404 is
\* written to the sink by Stream and is a success of DispatchStream.
HandlerReturn(h, outcome, elapsed) ==
    /\ hdl[h].pc = "dispatch"
    /\ hdl[h].stream => outcome # "static404"
    /\ served' = Append(served, [id |-> hdl[h].id, path |-> hdl[h].path,
                                 stream |-> hdl[h].stream, outcome |-> outcome,
                                 elapsed |-> elapsed])
    /\ hdl' = [hdl EXCEPT ![h] = NoHdl]
    /\ IF hdl[h].stream /\ outcome = "ok"
       THEN /\ RecordLatency(hdl[h].path, elapsed)
            /\ latencyCalls' = Append(latencyCalls, [id |-> hdl[h].id, path |-> hdl[h].path,
                                                     d |-> elapsed])
       ELSE UNCHANGED <<latencyCalls, clsVars>>

(***************************************************************************)
(* Round-robin selection (src/server/pool.go, src/server/server.go)        *)
(***************************************************************************)

\* Largest worker count read from the configuration, number of dispatcher
\* goroutines, and number of selections made.
MaxPool == 3
MaxDispatchers == 2
MaxPicks == 4

Dispatchers == 1..MaxDispatchers

\* defaultConfig: FastWorkers 4, SlowWorkers 2.
DefFastWorkers == 4
DefSlowWorkers == 2

\* loadConfig: fast_workers <= 0 and slow_workers < 0 fall back to the
\* defaults; every other value is kept.
LoadFastWorkers(n) == IF n <= 0 THEN DefFastWorkers ELSE n
LoadSlowWorkers(n) == IF n < 0 THEN DefSlowWorkers ELSE n

\* The values of fast_workers / slow_workers a configuration file holds.
CfgCounts == -1..MaxPool

\* WorkerPool.next is a uint32.  A value is kept as its two 16-bit halves,
\* hi * 65536 + lo, so that it has its full width.
Half == 65536

Zero32 == [hi |-> 0, lo |-> 0]

\* atomic.AddUint32(&p.next, 1): the sum modulo 2^32.
Inc32(c) ==
    IF c.lo = Half - 1
    THEN [hi |-> (c.hi + 1) % Half, lo |-> 0]
    ELSE [hi |-> c.hi, lo |-> c.lo + 1]

\* i % uint32(n) for n > 0.
Mod32(c, n) == (((c.hi % n) * (Half % n)) + (c.lo % n)) % n

\* The counter values a pool is observed from: the one NewPool leaves, and
\* the last ones before the counter wraps around.
StartCounters == {Zero32} \cup { [hi |-> Half - 1, lo |-> Half - k] : k \in 1..3 }

VARIABLES
    poolSlow,       \* the pool is Server.slowPool (else Server.fastPool)
    poolLen,        \* len(p.workers)
    poolNext,       \* WorkerPool.next
    pick,           \* per dispatcher: position in Dispatch / NextWorker, i, the outcome
    drawn           \* history: the values atomic.AddUint32 returned, in the order of the additions

poolVars == <<poolSlow, poolLen, poolNext, pick, drawn>>

\* picked: the call has selected a worker, idx its index in p.workers;
\* panicked: the call ended in a run-time panic.
NoPick == [pc |-> "idle", i |-> Zero32, picked |-> FALSE, idx |-> 0, panicked |-> FALSE]

\* NewServer / NewPool with the counts loadConfig produced.
PoolInit ==
    /\ poolSlow \in BOOLEAN
    /\ poolLen \in IF poolSlow THEN { LoadSlowWorkers(n) : n \in CfgCounts }
                               ELSE { LoadFastWorkers(n) : n \in CfgCounts }
    /\ poolNext \in StartCounters
    /\ pick = [d \in Dispatchers |-> NoPick]
    /\ drawn = << >>

\* The pools while no selection is looked at.
PoolIdle ==
    /\ poolSlow = FALSE
    /\ poolLen = DefFastWorkers
    /\ poolNext = Zero32
    /\ pick = [d \in Dispatchers |-> NoPick]
    /\ drawn = << >>

\* WorkerPool.Dispatch / NextWorker, first statement:
\* i := atomic.AddUint32(&p.next, 1)
PoolAdd(d) ==
    /\ pick[d].pc = "idle"
    /\ Len(drawn) < MaxPicks
    /\ poolNext' = Inc32(poolNext)
    /\ pick' = [pick EXCEPT ![d] = [NoPick EXCEPT !.pc = "index", !.i = Inc32(poolNext)]]
    /\ drawn' = Append(drawn, Inc32(poolNext))
    /\ UNCHANGED <<poolSlow, poolLen>>

\* WorkerPool.Dispatch / NextWorker, second statement:
\* p.workers[i%uint32(len(p.workers))].  With no worker the modulo is a
\* division by zero and the goroutine panics.
PoolIndex(d) ==
    /\ pick[d].pc = "index"
    /\ pick' = [pick EXCEPT ![d] =
                  IF poolLen = 0
                  THEN [@ EXCEPT !.pc = "idle", !.panicked = TRUE]
                  ELSE [@ EXCEPT !.pc = "idle", !.picked = TRUE,
                                 !.idx = Mod32(pick[d].i, poolLen)]]
    /\ UNCHANGED <<poolSlow, poolLen, poolNext, drawn>>

ClsNext ==
    \/ /\ \E r \in Requests : Classify(r)
       /\ UNCHANGED <<hubVars, wrkVars, hotVars, frmVars, ordVars, lckVars, hdlVars, poolVars>>
    \/ /\ \E path \in RecPaths, d \in Latencies : RecordLatency(path, d)
       /\ UNCHANGED <<hubVars, wrkVars, hotVars, frmVars, ordVars, lckVars, hdlVars, poolVars>>

vars == <<hubVars, clsVars, wrkVars, hotVars, frmVars, ordVars, lckVars, hdlVars, poolVars>>

HubNextAll ==
    \/ /\ \E ch \in Channels : Subscribe(ch)
       /\ UNCHANGED <<clsVars, wrkVars, hotVars, frmVars, ordVars, lckVars, hdlVars, poolVars>>
    \/ /\ \E c \in ClientIds : Unsubscribe(c)
       /\ UNCHANGED <<clsVars, wrkVars, hotVars, frmVars, ordVars, lckVars, hdlVars, poolVars>>
    \/ /\ \E p \in Slots, ch \in Channels : PublishBegin(p, ch)
       /\ UNCHANGED <<clsVars, wrkVars, hotVars, frmVars, ordVars, lckVars, hdlVars, poolVars>>
    \/ /\ \E p \in Slots, c \in ClientIds : PublishSend(p, c)
       /\ UNCHANGED <<clsVars, wrkVars, hotVars, frmVars, ordVars, lckVars, hdlVars, poolVars>>
    \/ /\ \E p \in Slots : PublishEnd(p)
       /\ UNCHANGED <<clsVars, wrkVars, hotVars, frmVars, ordVars, lckVars, hdlVars, poolVars>>
    \/ /\ \E c \in ClientIds : Recv(c)
       /\ UNCHANGED <<clsVars, wrkVars, hotVars, frmVars, ordVars, lckVars, hdlVars, poolVars>>

\* One worker driven directly by concurrent Handle and Stream callers, with
\* its child and the recycle mark.
Next ==
    \/ /\ \E c \in Calls : CallHandle(c, DirectWorker)
       /\ UNCHANGED <<hubVars, clsVars, hotVars, frmVars, ordVars, lckVars, hdlVars, poolVars>>
    \/ /\ \E c \in Calls : CallStream(c, DirectWorker)
       /\ UNCHANGED <<hubVars, clsVars, hotVars, frmVars, ordVars, lckVars, hdlVars, poolVars>>
    \/ /\ \E c \in Calls : HandleCheck(c)
       /\ UNCHANGED <<hubVars, clsVars, hotVars, frmVars, ordVars, lckVars, hdlVars, poolVars>>
    \/ /\ \E c \in Calls : RestartSpawn(c)
       /\ UNCHANGED <<hubVars, clsVars, hotVars, frmVars, ordVars, lckVars, hdlVars, poolVars>>
    \/ /\ \E c \in Calls : RestartClear(c)
       /\ UNCHANGED <<hubVars, clsVars, hotVars, frmVars, ordVars, lckVars, hdlVars, poolVars>>
    \/ /\ \E c \in Calls : RestartZero(c)
       /\ UNCHANGED <<hubVars, clsVars, hotVars, frmVars, ordVars, lckVars, hdlVars, poolVars>>
    \/ /\ \E c \in Calls : HandleWrite(c)
       /\ UNCHANGED <<hubVars, clsVars, hotVars, frmVars, ordVars, lckVars, hdlVars, poolVars>>
    \/ /\ \E c \in Calls : HandleRead(c)
       /\ UNCHANGED <<hubVars, clsVars, hotVars, frmVars, ordVars, lckVars, hdlVars, poolVars>>
    \/ /\ \E c \in Calls : HandleTimeout(c)
       /\ UNCHANGED <<hubVars, clsVars, hotVars, frmVars, ordVars, lckVars, hdlVars, poolVars>>
    \/ /\ \E c \in Calls : HandleMarkRetry(c)
       /\ UNCHANGED <<hubVars, clsVars, hotVars, frmVars, ordVars, lckVars, hdlVars, poolVars>>
    \/ /\ \E c \in Calls : HandleCount(c)
       /\ UNCHANGED <<hubVars, clsVars, hotVars, frmVars, ordVars, lckVars, hdlVars, poolVars>>
    \/ /\ \E c \in Calls : HandleReturn(c)
       /\ UNCHANGED <<hubVars, clsVars, hotVars, frmVars, ordVars, lckVars, hdlVars, poolVars>>
    \/ /\ \E c \in Calls : StreamBegin(c)
       /\ UNCHANGED <<hubVars, clsVars, hotVars, frmVars, ordVars, lckVars, hdlVars, poolVars>>
    \/ /\ \E c \in Calls : StreamRead(c)
       /\ UNCHANGED <<hubVars, clsVars, hotVars, frmVars, ordVars, lckVars, hdlVars, poolVars>>
    \/ /\ \E c \in Calls : StreamReturn(c)
       /\ UNCHANGED <<hubVars, clsVars, hotVars, frmVars, ordVars, lckVars, hdlVars, poolVars>>
    \/ /\ \E c \in Calls : StreamTimeoutMark(c)
       /\ UNCHANGED <<hubVars, clsVars, hotVars, frmVars, ordVars, lckVars, hdlVars, poolVars>>
    \/ /\ \E c \in Calls : StreamTimeoutKill(c)
       /\ UNCHANGED <<hubVars, clsVars, hotVars, frmVars, ordVars, lckVars, hdlVars, poolVars>>
    \/ /\ ChildReply(DirectWorker)
       /\ UNCHANGED <<hubVars, clsVars, hotVars, frmVars, ordVars, lckVars, hdlVars, poolVars>>
    \/ /\ ChildCrash(DirectWorker)
       /\ UNCHANGED <<hubVars, clsVars, hotVars, frmVars, ordVars, lckVars, hdlVars, poolVars>>
    \/ /\ LeakedRead(DirectWorker)
       /\ UNCHANGED <<hubVars, clsVars, hotVars, frmVars, ordVars, lckVars, hdlVars, poolVars>>
    \/ /\ RecycleMark(DirectWorker)
       /\ UNCHANGED <<hubVars, clsVars, hotVars, frmVars, ordVars, lckVars, hdlVars, poolVars>>

\* The server: requests dispatched to the pools while latencies are recorded.
\* The children answer every request (a malformed answer makes Handle retry).
DispatchNext ==
    \/ /\ \E c \in Calls, r \in DispRequests : Dispatch(c, r)
       /\ UNCHANGED <<hubVars, clsVars, hotVars, frmVars, ordVars, lckVars, hdlVars, poolVars>>
    \/ /\ \E c \in Calls, r \in DispRequests : DispatchStream(c, r)
       /\ UNCHANGED <<hubVars, clsVars, hotVars, frmVars, ordVars, lckVars, hdlVars, poolVars>>
    \/ /\ \E c \in Calls : HandleCheck(c)
       /\ UNCHANGED <<hubVars, clsVars, hotVars, frmVars, ordVars, lckVars, hdlVars, poolVars>>
    \/ /\ \E c \in Calls : RestartSpawn(c)
       /\ UNCHANGED <<hubVars, clsVars, hotVars, frmVars, ordVars, lckVars, hdlVars, poolVars>>
    \/ /\ \E c \in Calls : RestartClear(c)
       /\ UNCHANGED <<hubVars, clsVars, hotVars, frmVars, ordVars, lckVars, hdlVars, poolVars>>
    \/ /\ \E c \in Calls : RestartZero(c)
       /\ UNCHANGED <<hubVars, clsVars, hotVars, frmVars, ordVars, lckVars, hdlVars, poolVars>>
    \/ /\ \E c \in Calls : HandleWrite(c)
       /\ UNCHANGED <<hubVars, clsVars, hotVars, frmVars, ordVars, lckVars, hdlVars, poolVars>>
    \/ /\ \E c \in Calls : HandleRead(c)
       /\ UNCHANGED <<hubVars, clsVars, hotVars, frmVars, ordVars, lckVars, hdlVars, poolVars>>
    \/ /\ \E c \in Calls : HandleMarkRetry(c)
       /\ UNCHANGED <<hubVars, clsVars, hotVars, frmVars, ordVars, lckVars, hdlVars, poolVars>>
    \/ /\ \E c \in Calls : HandleCount(c)
       /\ UNCHANGED <<hubVars, clsVars, hotVars, frmVars, ordVars, lckVars, hdlVars, poolVars>>
    \/ /\ \E c \in Calls : HandleReturn(c)
       /\ UNCHANGED <<hubVars, clsVars, hotVars, frmVars, ordVars, lckVars, hdlVars, poolVars>>
    \/ /\ \E c \in Calls : StreamBegin(c)
       /\ UNCHANGED <<hubVars, clsVars, hotVars, frmVars, ordVars, lckVars, hdlVars, poolVars>>
    \/ /\ \E c \in Calls : StreamRead(c)
       /\ UNCHANGED <<hubVars, clsVars, hotVars, frmVars, ordVars, lckVars, hdlVars, poolVars>>
    \/ /\ \E c \in Calls : StreamReturn(c)
       /\ UNCHANGED <<hubVars, clsVars, hotVars, frmVars, ordVars, lckVars, hdlVars, poolVars>>
    \/ /\ \E w \in Workers : ChildReply(w)
       /\ UNCHANGED <<hubVars, clsVars, hotVars, frmVars, ordVars, lckVars, hdlVars, poolVars>>
    \/ /\ RecordLatency(DispRecPath, DispLatency)
       /\ UNCHANGED <<hubVars, wrkVars, hotVars, frmVars, ordVars, lckVars, hdlVars, poolVars>>

InitHub == HubInit /\ ClsIdle /\ WrkIdle /\ HotIdle /\ FrmInit /\ OrdInit /\ LckInit /\ HdlInit /\ PoolIdle

HubSpec == InitHub /\ [][HubNextAll]_vars

InitCls == HubInit /\ ClsInit /\ WrkIdle /\ HotIdle /\ FrmInit /\ OrdInit /\ LckInit /\ HdlInit /\ PoolIdle

ClsSpec == InitCls /\ [][ClsNext]_vars

Init == HubInit /\ ClsIdle /\ WrkInit /\ HotIdle /\ FrmInit /\ OrdInit /\ LckInit /\ HdlInit /\ PoolIdle

Spec == Init /\ [][Next]_vars

InitDispatch == HubInit /\ ClsIdle /\ WrkIdle /\ HotIdle /\ FrmInit /\ OrdInit /\ LckInit /\ HdlInit /\ PoolIdle

DispatchSpec == InitDispatch /\ [][DispatchNext]_vars

\* Hot reload: the file system, the watcher goroutine, and one Handle call on
\* a worker (the steps a call on a responsive child takes), whose restart
\* revives a worker the watcher has marked.
HotNext ==
    \/ /\ \E dir \in WatchDirs, op \in EventOps : FsEvent(dir, op)
       /\ UNCHANGED <<hubVars, clsVars, wrkVars, frmVars, ordVars, lckVars, hdlVars, poolVars>>
    \/ /\ WatcherTake
       /\ UNCHANGED <<hubVars, clsVars, wrkVars, frmVars, ordVars, lckVars, hdlVars, poolVars>>
    \/ /\ WatcherMark
       /\ UNCHANGED <<hubVars, clsVars, frmVars, ordVars, lckVars, hdlVars, poolVars>>
    \/ /\ \A b \in Calls : call[b].pc = "idle"
       /\ \E c \in Calls : CallHandle(c, DirectWorker)
       /\ UNCHANGED <<hubVars, clsVars, hotVars, frmVars, ordVars, lckVars, hdlVars, poolVars>>
    \/ /\ \E c \in Calls : HandleCheck(c)
       /\ UNCHANGED <<hubVars, clsVars, hotVars, frmVars, ordVars, lckVars, hdlVars, poolVars>>
    \/ /\ \E c \in Calls : RestartSpawn(c)
       /\ UNCHANGED <<hubVars, clsVars, hotVars, frmVars, ordVars, lckVars, hdlVars, poolVars>>
    \/ /\ \E c \in Calls : RestartRevive(c)
       /\ UNCHANGED <<hubVars, clsVars, frmVars, ordVars, lckVars, hdlVars, poolVars>>
    \/ /\ \E c \in Calls : RestartZero(c)
       /\ UNCHANGED <<hubVars, clsVars, hotVars, frmVars, ordVars, lckVars, hdlVars, poolVars>>
    \/ /\ \E c \in Calls : HandleWrite(c)
       /\ UNCHANGED <<hubVars, clsVars, hotVars, frmVars, ordVars, lckVars, hdlVars, poolVars>>
    \/ /\ \E c \in Calls : HandleRead(c)
       /\ UNCHANGED <<hubVars, clsVars, hotVars, frmVars, ordVars, lckVars, hdlVars, poolVars>>
    \/ /\ \E c \in Calls : HandleMarkRetry(c)
       /\ UNCHANGED <<hubVars, clsVars, hotVars, frmVars, ordVars, lckVars, hdlVars, poolVars>>
    \/ /\ \E c \in Calls : HandleCount(c)
       /\ UNCHANGED <<hubVars, clsVars, hotVars, frmVars, ordVars, lckVars, hdlVars, poolVars>>
    \/ /\ \E c \in Calls : HandleReturn(c)
       /\ UNCHANGED <<hubVars, clsVars, hotVars, frmVars, ordVars, lckVars, hdlVars, poolVars>>
    \/ /\ ChildReply(DirectWorker)
       /\ UNCHANGED <<hubVars, clsVars, hotVars, frmVars, ordVars, lckVars, hdlVars, poolVars>>

\* The steps of the watcher goroutine.
WatcherStep ==
    \/ /\ WatcherTake
       /\ UNCHANGED <<hubVars, clsVars, wrkVars, frmVars, ordVars, lckVars, hdlVars, poolVars>>
    \/ /\ WatcherMark
       /\ UNCHANGED <<hubVars, clsVars, frmVars, ordVars, lckVars, hdlVars, poolVars>>

InitHot == HubInit /\ ClsIdle /\ WrkIdle /\ HotInit /\ FrmInit /\ OrdInit /\ LckInit /\ HdlInit /\ PoolIdle

\* The watcher goroutine is an ordinary goroutine: the Go scheduler runs it
\* whenever it can take a step, and markDead waits only for deadMu, which no
\* holder keeps across a blocking operation.
HotSpec == InitHot /\ [][HotNext]_vars /\ WF_vars(WatcherStep)

\* Forced recycling: ForceRecycleWorkers called up to MaxForce times, one after
\* the other, next to Handle calls on a worker.
RecycleNext ==
    \/ /\ ForceBegin
       /\ UNCHANGED <<hubVars, clsVars, wrkVars, frmVars, ordVars, lckVars, hdlVars, poolVars>>
    \/ /\ ForceMark
       /\ UNCHANGED <<hubVars, clsVars, frmVars, ordVars, lckVars, hdlVars, poolVars>>
    \/ /\ \E c \in Calls : CallHandle(c, DirectWorker)
       /\ UNCHANGED <<hubVars, clsVars, hotVars, frmVars, ordVars, lckVars, hdlVars, poolVars>>
    \/ /\ \E c \in Calls : HandleCheck(c)
       /\ UNCHANGED <<hubVars, clsVars, hotVars, frmVars, ordVars, lckVars, hdlVars, poolVars>>
    \/ /\ \E c \in Calls : RestartSpawn(c)
       /\ UNCHANGED <<hubVars, clsVars, hotVars, frmVars, ordVars, lckVars, hdlVars, poolVars>>
    \/ /\ \E c \in Calls : RestartRevive(c)
       /\ UNCHANGED <<hubVars, clsVars, frmVars, ordVars, lckVars, hdlVars, poolVars>>
    \/ /\ \E c \in Calls : RestartZero(c)
       /\ UNCHANGED <<hubVars, clsVars, hotVars, frmVars, ordVars, lckVars, hdlVars, poolVars>>
    \/ /\ \E c \in Calls : HandleWrite(c)
       /\ UNCHANGED <<hubVars, clsVars, hotVars, frmVars, ordVars, lckVars, hdlVars, poolVars>>
    \/ /\ \E c \in Calls : HandleRead(c)
       /\ UNCHANGED <<hubVars, clsVars, hotVars, frmVars, ordVars, lckVars, hdlVars, poolVars>>
    \/ /\ \E c \in Calls : HandleMarkRetry(c)
       /\ UNCHANGED <<hubVars, clsVars, hotVars, frmVars, ordVars, lckVars, hdlVars, poolVars>>
    \/ /\ \E c \in Calls : HandleCount(c)
       /\ UNCHANGED <<hubVars, clsVars, hotVars, frmVars, ordVars, lckVars, hdlVars, poolVars>>
    \/ /\ \E c \in Calls : HandleReturn(c)
       /\ UNCHANGED <<hubVars, clsVars, hotVars, frmVars, ordVars, lckVars, hdlVars, poolVars>>
    \/ /\ ChildReply(DirectWorker)
       /\ UNCHANGED <<hubVars, clsVars, hotVars, frmVars, ordVars, lckVars, hdlVars, poolVars>>

InitRecycle == HubInit /\ ClsIdle /\ WrkIdle /\ HotIdle /\ FrmInit /\ OrdInit /\ LckInit /\ HdlInit /\ PoolIdle

RecycleSpec == InitRecycle /\ [][RecycleNext]_vars

\* strings.Contains for texts.
Contains(txt, part) ==
    \E i \in 1..(Len(txt) + 1) :
        /\ i + Len(part) - 1 <= Len(txt)
        /\ SubSeq(txt, i, i + Len(part) - 1) = part

RECURSIVE FrameData(_)
\* The data of the headers and chunk frames of a sequence of frames, in order.
FrameData(fs) ==
    IF fs = << >> THEN << >>
    ELSE (IF Head(fs).t \in {"headers", "chunk"} THEN Head(fs).data ELSE << >>)
            \o FrameData(Tail(fs))

RECURSIVE SinkBody(_)
\* http.ResponseWriter: the response body is what the Write calls carried.
SinkBody(sk) ==
    IF sk = << >> THEN << >>
    ELSE (IF Head(sk).op = "write" THEN Head(sk).data ELSE << >>) \o SinkBody(Tail(sk))

\* http.ResponseWriter: the calls before the first WriteHeader or Write.
BeforeStatus(sk) ==
    SubSeq(sk, 1, CHOOSE n \in 0..Len(sk) :
                     /\ \A i \in 1..n : sk[i].op = "set"
                     /\ n < Len(sk) => sk[n + 1].op # "set")

\* http.ResponseWriter: the status of the response is that of the first
\* WriteHeader call; a Write before any WriteHeader sends 200; 0 while
\* neither was called.
SinkCode(sk) ==
    LET n == Len(BeforeStatus(sk)) IN
    IF n = Len(sk) THEN 0
    ELSE IF sk[n + 1].op = "status" THEN sk[n + 1].code ELSE 200

RECURSIVE HeaderValues(_, _)
\* http.Header after the Set calls made before the status was sent: the
\* values of header k (Set replaces what the header held).
HeaderValues(sk, k) ==
    IF sk = << >> THEN << >>
    ELSE IF sk[Len(sk)].op = "set" /\ sk[Len(sk)].k = k THEN <<sk[Len(sk)].data>>
    ELSE HeaderValues(SubSeq(sk, 1, Len(sk) - 1), k)

RECURSIVE Join(_)
\* strings.Join(vals, ", ")
Join(vals) ==
    IF vals = << >> THEN << >>
    ELSE IF Len(vals) = 1 THEN vals[1]
    ELSE vals[1] \o <<", ">> \o Join(Tail(vals))

\* The frame types that do not end a stream.
GoesOn(f) == Unmarshals(f) /\ f.t \in {"headers", "chunk"}

StreamCalls == { c \in Calls : call[c].kind = "Stream" }

\* err.Error() of the error a call has returned, word by word: the errors
\* of io (EOF, unexpected EOF), of the pipe write to a killed child, of
\* encoding/json, of exec when the child cannot be started, of the sink, and
\* the messages Handle, Stream and streamInternal format themselves.
ErrorText(r) ==
    CASE r.res = "timeout" ->
            <<"worker", IF r.kind = "Handle" THEN "request" ELSE "stream", "timeout", "after", "1s">>
      [] r.res = "eof" -> <<"EOF">>
      [] r.res = "unexpected_eof" -> <<"unexpected", "EOF">>
      [] r.res = "write_pipe" -> <<"write", "|1:", "broken", "pipe">>
      [] r.res = "json_error" -> <<"invalid", "character", "'x'", "looking", "for",
                                  "beginning", "of", "value">>
      [] r.res = "spawn_error" -> <<"exec:", "\"php\":", "executable", "file", "not", "found",
                                   "in", "$PATH">>
      [] r.res = "sink_error" -> <<"write", "tcp", "broken", "pipe">>
      [] r.res \in {"stream_error", "unknown_frame"} -> r.emsg
      [] OTHER -> << >>

\* mapWorkerErrorToStatus (cmd/server): strings.Contains on err.Error().
mapWorkerErrorToStatus(msg) ==
    IF Contains(msg, <<"timeout">>) THEN 504
    ELSE IF \/ Contains(msg, <<"unexpected", "EOF">>)
            \/ Contains(msg, <<"broken", "pipe">>)
            \/ Contains(msg, <<"connection", "reset">>)
    THEN 502
    ELSE 500

\* The calls that have returned an error to their caller.
FailedCalls ==
    { c \in Calls : /\ call[c].res \notin {"none", "ok", "panic"}
                    /\ \/ call[c].kind = "Handle" /\ call[c].pc = "done"
                       \/ call[c].kind = "Stream" /\ call[c].ret = "returned" }

\* Streams on one worker, frame by frame: concurrent Stream callers without a
\* timeout, and a child that answers each request with one of FrameScripts.
StreamNext ==
    \/ /\ \E c \in Calls : CallStream(c, DirectWorker)
       /\ UNCHANGED <<hubVars, clsVars, hotVars, frmVars, ordVars, lckVars, hdlVars, poolVars>>
    \/ /\ \E c \in Calls : StreamBegin(c)
       /\ UNCHANGED <<hubVars, clsVars, hotVars, frmVars, ordVars, lckVars, hdlVars, poolVars>>
    \/ /\ \E c \in Calls : StreamRead(c)
       /\ UNCHANGED <<hubVars, clsVars, hotVars, frmVars, ordVars, lckVars, hdlVars, poolVars>>
    \/ /\ \E c \in Calls : StreamReturn(c)
       /\ UNCHANGED <<hubVars, clsVars, hotVars, frmVars, ordVars, lckVars, hdlVars, poolVars>>
    \/ /\ ChildStream(DirectWorker)
       /\ UNCHANGED <<hubVars, clsVars, hotVars, frmVars, ordVars, lckVars, hdlVars, poolVars>>

InitStream == HubInit /\ ClsIdle /\ WrkIdle /\ HotIdle /\ FrmInit /\ OrdInit /\ LckInit /\ HdlInit /\ PoolIdle

StreamSpec == InitStream /\ [][StreamNext]_vars

\* One pipe: a sender writing frames and a reader decoding them.
FrameNext ==
    \/ /\ \E pl \in Payloads : SendHeader(pl)
       /\ UNCHANGED <<hubVars, clsVars, wrkVars, hotVars, ordVars, lckVars, hdlVars, poolVars>>
    \/ /\ SendPayload
       /\ UNCHANGED <<hubVars, clsVars, wrkVars, hotVars, ordVars, lckVars, hdlVars, poolVars>>
    \/ /\ RecvHeader
       /\ UNCHANGED <<hubVars, clsVars, wrkVars, hotVars, ordVars, lckVars, hdlVars, poolVars>>
    \/ /\ RecvPayload
       /\ UNCHANGED <<hubVars, clsVars, wrkVars, hotVars, ordVars, lckVars, hdlVars, poolVars>>

InitFrame == HubInit /\ ClsIdle /\ WrkIdle /\ HotIdle /\ FrmInit /\ OrdInit /\ LckInit /\ HdlInit /\ PoolIdle

FrameSpec == InitFrame /\ [][FrameNext]_vars

(***************************************************************************)
(* Claims about the event hub                                              *)
(***************************************************************************)

\* C2: once Unsubscribe(C, S) has returned, S is no longer registered under C,
\* no Publish has put a message into S's buffer or sent on S's closed
\* channel, and close(S.Send) has been executed exactly once.
UnsubscribeStopsDelivery ==
    /\ ~sendPanic
    /\ ~lateDelivery
    /\ \A c \in unsubReturned :
          /\ c \notin SubsOf(clientChan[c])
          /\ \A p \in Slots : c \notin pubs[p].todo
          /\ wsClosed[c]
          /\ closeCount[c] = 1

\* C2 witness: a client that had received a message was unsubscribed, and a
\* later Publish on its channel reached another subscriber but not it.
UnsubscribedThenPublished ==
    \E c \in unsubReturned :
        /\ Len(wsSend[c]) > 0
        /\ lastPub.active
        /\ lastPub.ch = clientChan[c]
        /\ c \notin lastPub.subs
        /\ lastPub.got # {}

\* C3: a Publish in flight can always take its next step (it never waits for
\* a subscriber); the step for a subscriber whose buffer is full changes no
\* buffer and moves on, the step for a subscriber with room appends the
\* message to that subscriber's buffer; and Publish returns only after every
\* subscriber of the channel has been offered the message.
PublishNeverBlocks ==
    [][ \A p \in Slots :
          /\ (pubs[p].active /\ pubs[p].todo # {}) => ENABLED (\E c \in ClientIds : PublishSend(p, c))
          /\ \A c \in ClientIds :
                (pubs[p].active /\ c \in pubs[p].todo /\ pubs'[p].active /\ c \notin pubs'[p].todo)
                => IF Len(wsSend[c]) = BufSize
                   THEN wsSend' = wsSend /\ c \in pubs'[p].dropped
                   ELSE wsSend' = [wsSend EXCEPT ![c] = Append(@, WSMessage(pubs[p].ch, pubs[p].data))] /\ c \in pubs'[p].got
          /\ (pubs[p].active /\ ~pubs'[p].active)
                => /\ pubs[p].todo = {}
                   /\ pubs[p].got \cup pubs[p].dropped = pubs[p].subs
                   /\ lastPub' = pubs[p]
      ]_vars

\* C3 witness: a Publish returned after dropping the message for one
\* subscriber (buffer full) and delivering it to another.
PublishDroppedForOne ==
    /\ lastPub.active
    /\ lastPub.dropped # {}
    /\ lastPub.got # {}

(***************************************************************************)
(* Claims about the classifier                                             *)
(***************************************************************************)

\* The three criteria of the claim, stated on sets rather than on the loops.
PathHasConfiguredPrefix(r) ==
    \E i \in 1..Len(routePrefixes) : HasPrefix(r.path, routePrefixes[i])
PathHasNonEmptyPrefix(r) ==
    \E i \in 1..Len(routePrefixes) :
        routePrefixes[i] # << >> /\ HasPrefix(r.path, routePrefixes[i])
MethodIsSlow(r) ==
    ToUpper(r.method) \in {ToUpper(slowMethods[i]) : i \in 1..Len(slowMethods)}
BodyIsLarge(r) == r.bodyLen > bodyThreshold

\* C8 as stated: in every state, IsSlowRequest(r) is true exactly when the path starts with
\* some configured slow prefix, or the upper-cased method is a configured slow
\* method, or the body is longer than the threshold.
IsSlowIffAnyCriterion ==
    \A r \in Requests :
        IsSlowRequest(r) <=> (PathHasConfiguredPrefix(r) \/ MethodIsSlow(r) \/ BodyIsLarge(r))

\* C8 amended: the same with "some non-empty configured slow prefix" (an
\* empty string in the prefix list matches nothing).
IsSlowIffAnyCriterionNonEmpty ==
    \A r \in Requests :
        IsSlowRequest(r) <=> (PathHasNonEmptyPrefix(r) \/ MethodIsSlow(r) \/ BodyIsLarge(r))

\* C8 witness: a request whose body is exactly threshold bytes long and that
\* matches no criterion was classified as not slow, with an empty prefix configured.
ExactThresholdNotSlow ==
    /\ lastReq # << >>
    /\ lastReq.bodyLen = bodyThreshold
    /\ ~lastSlow
    /\ lastSlow = IsSlowRequest(lastReq)
    /\ \E i \in 1..Len(routePrefixes) : routePrefixes[i] = << >>

HandleCalls == {c \in Calls : call[c].kind = "Handle"}

\* The errors the contract calls broken-pipe class.
BrokenPipeClass == {"eof", "unexpected_eof", "write_pipe", "read_pipe"}

\* C1: a request frame is written to a child only when every frame of the
\* earlier exchanges on that child has been answered and read; no write finds
\* an earlier exchange's frames still pending on the same child.
ExchangesNeverOverlap == ~overlap

\* The call timed out with nothing on stdout, and no frame had come back on
\* an earlier attempt either (io.ErrUnexpectedEOF is the outcome of a frame
\* that declared a bad length).
NothingReceived(c) ==
    /\ call[c].res = "timeout"
    /\ call[c].silent
    /\ call[c].firstErr # "unexpected_eof"

\* C4 as stated: a Handle call that timed out while the child had sent
\* nothing left the worker flagged dead and the child killed when it
\* returned, and wrote its request frame exactly once.
TimeoutWritesOnce ==
    \A c \in HandleCalls :
        NothingReceived(c) =>
            /\ call[c].deadAtRet
            /\ ~call[c].upAtRet
            /\ call[c].wrote = 1

\* C4 amended: a Handle call that timed out while the child had sent nothing
\* has returned the timeout error without a further attempt; the worker was
\* flagged dead and the child killed when it returned, the flag stays until a
\* restart spawns a new child and the killed child stays down until then; the
\* request frame was written once, or twice when the attempt that timed out
\* was the retry after a broken-pipe-class failure of the first attempt.
TimeoutEndsCall ==
    \A c \in HandleCalls :
        (call[c].res = "timeout" /\ call[c].silent) =>
            /\ call[c].pc = "done"
            /\ call[c].deadAtRet
            /\ ~call[c].upAtRet
            /\ dead[call[c].w] \/ call[c].sinceTimeout = "restarted"
            /\ call[c].sinceTimeout = "timedout" => ~childUp[call[c].w]
            /\ call[c].wrote \in {1, 2}
            /\ call[c].writes = call[c].attempt + 1
            /\ call[c].attempt = 1 => call[c].firstErr \in BrokenPipeClass

\* C4 witness: the timeout hit the retry, after the frame had reached two
\* children.
TimeoutOnRetry ==
    \E c \in HandleCalls :
        /\ NothingReceived(c)
        /\ call[c].wrote = 2
        /\ call[c].deadAtRet

\* C5: a Handle call writes its request frame at most twice; the second write
\* comes only after the first attempt failed with a broken-pipe-class error,
\* the call marked the worker dead and the worker spawned a new child; a call
\* whose second attempt failed the same way has returned an error after
\* exactly two writes.
AtMostOneRetry ==
    \A c \in HandleCalls :
        /\ call[c].writes <= 2
        /\ call[c].writes = 2 =>
              /\ call[c].firstErr \in BrokenPipeClass
              /\ call[c].marked
              /\ call[c].retryOn = "restarted"
        /\ call[c].attempt = 2 =>
              /\ call[c].writes = 2
              /\ call[c].pc \in {"h_check", "done"}
              /\ call[c].pc = "done" => call[c].res = "unexpected_eof"

\* C5 witness: both attempts failed with a broken-pipe-class error and Handle
\* returned the error.
SecondAttemptFailed ==
    \E c \in HandleCalls :
        /\ call[c].pc = "done"
        /\ call[c].attempt = 2
        /\ call[c].writes = 2
        /\ call[c].res = "unexpected_eof"

\* C6: a call that finds the worker dead restarts the child and goes on with
\* its exchange; it is never left blocked because the worker was dead.
DeadWorkerCallProceeds ==
    \A c \in Calls : call[c].foundDead => call[c].pc # "s_stuck"

\* C7: with maxRequests = M > 0, whenever M Handle calls have returned a
\* response read from the worker's current child, the worker is flagged dead;
\* the flag therefore stays set for as long as that child is the current one,
\* that is until a restart replaces it.
RecycledAfterMaxRequests ==
    \A w \in Workers :
        LET returned == {c \in HandleCalls : call[c].w = w /\ call[c].pc = "done"
                                             /\ call[c].res = "ok" /\ call[c].served}
        IN (maxRequests > 0 /\ Cardinality(returned) >= maxRequests) => dead[w]

\* C7 witness: with maxRequests = 2, two responses of the current child have
\* been returned and the worker is flagged dead.
RecycledAtMax ==
    /\ maxRequests = 2
    /\ \A c \in Calls : call[c].kind = "Handle" /\ call[c].res = "ok" /\ call[c].served
    /\ dead[DirectWorker]

WorkerSet(pool) == {pool[i] : i \in 1..Len(pool)}

\* C10: a dispatched request is assigned to a worker of the slow pool exactly
\* when IsSlowRequest was true for it under the prefix list in force at
\* dispatch, otherwise to a worker of the fast pool; and its frames, its
\* replies and its hold of a worker's lock are only ever on workers of that
\* pool, also after a retry and after the classification has changed.
DispatchKeepsPool ==
    \A c \in Calls :
        (call[c].req # << >> /\ call[c].res # "panic") =>
            LET slow == IsSlowWith(call[c].prefixesAt, slowMethods, bodyThreshold, call[c].req)
                mine == IF slow THEN WorkerSet(SlowWorkers) ELSE WorkerSet(FastWorkers)
            IN /\ call[c].w \in mine
               /\ \A w \in Workers :
                     (\/ mu[w] = c
                      \/ \E i \in 1..Len(childReq[w]) : childReq[w][i].rid = c
                      \/ \E i \in 1..Len(pipe[w]) : pipe[w][i].rid = c) => w \in mine

\* C10 witness: a request dispatched to the fast pool was retried there after
\* its path had been promoted to slow.
RetriedOnFastAfterPromotion ==
    \E c \in Calls :
        /\ call[c].req # << >>
        /\ ~call[c].slowAt
        /\ IsSlowRequest(call[c].req)
        /\ call[c].wrote = 2
        /\ call[c].w \in WorkerSet(FastWorkers)

(***************************************************************************)
(* Claims about hot reload and forced recycling                            *)
(***************************************************************************)

\* C11: every write, create, remove or rename event in a watched directory
\* is eventually followed by a state in which markDead has been applied,
\* since that event, to every worker of the fast and of the slow pool.
HotReloadMarksAll == (unmarked # {}) ~> (unmarked = {})

\* C11 witness: every event has been delivered and taken, the watcher has
\* marked every worker since the last change event, and a restart has since
\* revived a worker that was marked.
HotReloadMarkedAndRevived ==
    /\ emitted = MaxEvents
    /\ fsEvents = << >>
    /\ watchPos = 0
    /\ unmarked = {}
    /\ \A w \in WorkerIds \ {DirectWorker} : dead[w]
    /\ ~dead[DirectWorker]
    /\ DirectWorker \in revived

\* C12: once ForceRecycleWorkers has returned, every worker of both pools is
\* flagged dead unless a restart has revived it since; with no worker
\* revived, Health reports DeadWorkers = Workers for each pool; and a
\* markDead applied to a worker that is already dead (one step of a second
\* ForceRecycleWorkers in a row) leaves the state of every worker as it was.
ForceRecycleIdempotent ==
    /\ [](forceDone >= 1 /\ forcePos = 0 =>
            /\ \A w \in WorkerIds : dead[w] \/ w \in revived
            /\ revived = {} =>
                  /\ Health.Fast.DeadWorkers = Health.Fast.Workers
                  /\ Health.Slow.DeadWorkers = Health.Slow.Workers)
    /\ [][(forcePos \in 1..Len(AllWorkers) /\ forcePos' # forcePos
             /\ dead[AllWorkers[forcePos]]) => (wrkVars' = wrkVars)]_vars

\* C12 witness: a second ForceRecycleWorkers in a row has returned, after a
\* call had restarted a worker before the first, and Health counts every
\* worker of both pools as dead.
ForcedTwice ==
    /\ forceDone = 2
    /\ revived = {}
    /\ \E c \in Calls : call[c].pc = "done" /\ call[c].res = "ok"
    /\ Health.Fast = [Workers |-> Len(FastWorkers), DeadWorkers |-> Len(FastWorkers)]
    /\ Health.Slow = [Workers |-> Len(SlowWorkers), DeadWorkers |-> Len(SlowWorkers)]

(***************************************************************************)
(* Claims about stream frames                                              *)
(***************************************************************************)

\* C13: streamInternal stops at the first end, error or unknown-type frame:
\* every frame it read before its last one was a headers or chunk frame; once
\* it has read an end frame it has returned success, once it has read an error
\* frame it has returned an error whose message contains the frame's error
\* text, and once it has read a frame of an unknown type it has returned an
\* error whose message names that type.
StreamStopsAtTerminal ==
    \A c \in StreamCalls :
        LET rs == call[c].reads
            last == rs[Len(rs)] IN
        /\ \A i \in 1..(Len(rs) - 1) : GoesOn(rs[i])
        /\ (rs # << >> /\ Unmarshals(last) /\ last.t = "end") =>
              call[c].pc = "s_done" /\ call[c].gres = "ok"
        /\ (rs # << >> /\ Unmarshals(last) /\ last.t = "error") =>
              /\ call[c].pc = "s_done"
              /\ call[c].gres = "stream_error"
              /\ Contains(call[c].emsg, last.err)
        /\ (rs # << >> /\ Unmarshals(last)
              /\ last.t \notin {"headers", "chunk", "end", "error", "badlen"}) =>
              /\ call[c].pc = "s_done"
              /\ call[c].gres = "unknown_frame"
              /\ Contains(call[c].emsg, <<last.t>>)

\* C13 witness: a stream ended by an error frame after a headers and a chunk
\* frame has returned the frame's text, and the end frame the child wrote
\* after the error frame is still unread.
StreamEndedByErrorFrame ==
    \E c \in StreamCalls :
        /\ call[c].ret = "returned"
        /\ call[c].res = "stream_error"
        /\ Len(call[c].reads) = 3
        /\ Contains(call[c].emsg, <<"boom">>)
        /\ pipe[call[c].w] # << >>
        /\ Head(pipe[call[c].w]) = Frame("end", c)

\* C14: when the first frame a stream reads is a chunk, the first call on the
\* sink after it is WriteHeader(200), before any Write, so the response
\* status is 200; and when the stream has ended with an end frame, the
\* response body is the concatenation, in the order read, of the data of the
\* headers and chunk frames.
StreamBodyIsConcatenation ==
    \A c \in StreamCalls :
        LET rs == call[c].reads IN
        /\ (rs # << >> /\ GoesOn(rs[1]) /\ rs[1].t = "chunk") =>
              /\ call[c].sink # << >>
              /\ call[c].sink[1] = SinkStatus(200)
              /\ SinkCode(call[c].sink) = 200
        /\ (call[c].pc = "s_done" /\ call[c].gres = "ok") =>
              SinkBody(call[c].sink) = FrameData(rs)

\* C14 witness: a stream whose first frame was a chunk and whose second was a
\* headers frame with status 201 and data has ended with an end frame; the
\* status sent is 200 and the body holds both data, in order.
ChunkFirstStreamEnded ==
    \E c \in StreamCalls :
        /\ call[c].pc = "s_done"
        /\ call[c].gres = "ok"
        /\ Len(call[c].reads) = 3
        /\ call[c].reads[1].t = "chunk"
        /\ call[c].reads[2].t = "headers"
        /\ SinkCode(call[c].sink) = 200
        /\ SinkBody(call[c].sink) = <<"x", "h">>

\* C15: once a stream has read a headers frame whose header values are
\* arrays, the response holds, for an ordinary header, one value that is the
\* array joined with ", "; for Set-Cookie, one value per element; and no
\* value for a header whose array is empty.
HeaderListsEmitted ==
    \A c \in StreamCalls :
        \A i \in 1..Len(call[c].reads) :
            LET f == call[c].reads[i] IN
            \A j \in 1..Len(f.hdrs) :
                f.hdrs[j].v.list =>
                    HeaderValues(BeforeStatus(call[c].sink), f.hdrs[j].k) =
                        IF f.hdrs[j].v.vals = << >> THEN << >>
                        ELSE IF f.hdrs[j].k = "Set-Cookie" THEN f.hdrs[j].v.vals
                        ELSE <<Join(f.hdrs[j].v.vals)>>

(***************************************************************************)
(* Claims about framing                                                    *)
(***************************************************************************)

\* C16: for every payload of N bytes with 1 <= N <= 10 MiB that was framed
\* and that the reader has decoded, the reader has decoded the length N and
\* exactly the payload's bytes, also when another frame follows on the pipe.
FrameRoundTrip ==
    \A i \in 1..Len(fgot) :
        (\A j \in 1..i : Size(fsent[j]) >= 1 /\ Size(fsent[j]) <= MaxFrameLen) =>
            /\ fgot[i].ok
            /\ fgot[i].n = Size(fsent[i])
            /\ fgot[i].payload = Norm(fsent[i])

\* C16 witness: a frame of exactly 10 MiB and a frame of 65536 bytes were
\* written one after the other and both were decoded.
TwoFramesDecoded ==
    /\ Len(fgot) = 2
    /\ fgot[1].ok /\ fgot[1].n = MaxFrameLen
    /\ fgot[2].ok /\ fgot[2].n = 65536
    /\ fwire = << >>

(***************************************************************************)
(* Claims about the request frames and the errors of a call                *)
(***************************************************************************)

\* C17: every request frame that Server.Dispatch or Server.DispatchStream has
\* written to a worker carries a non-empty id, also when the caller's
\* RequestPayload had an empty ID.
DispatchedFramesCarryId ==
    \A w \in Workers : \A i \in 1..Len(childReq[w]) : childReq[w][i].id # ""

\* C18: for every error a Handle or Stream call has returned,
\* mapWorkerErrorToStatus gives 504 when it is the timeout error, 502 when it
\* is a broken-pipe, end-of-stream or unexpected-end-of-stream error, and 500
\* otherwise.
ErrorsMapToStatus ==
    \A c \in FailedCalls :
        mapWorkerErrorToStatus(ErrorText(call[c])) =
            CASE call[c].res = "timeout" -> 504
              [] call[c].res \in {"write_pipe", "sink_error", "eof", "unexpected_eof"} -> 502
              [] OTHER -> 500

\* The step in which call c reads a frame f from its worker's stdout.
ReadsFrame(c, f) ==
    /\ pipe[call[c].w] # << >>
    /\ Head(pipe[call[c].w]) = f
    /\ pipe'[call[c].w] = Tail(pipe[call[c].w])
    /\ \/ call[c].pc = "h_wait" /\ call'[c].pc # "h_wait"
       \/ call[c].pc = "s_read" /\ Len(call'[c].reads) = Len(call[c].reads) + 1

\* C19: when a call reads a reply frame that declares a length of 0 or of
\* more than 10 MiB, the call ends there with the error, without another
\* attempt, and the worker is flagged dead.
BadLengthEndsCall ==
    [][\A c \in Calls : \A a \in Calls :
          ReadsFrame(c, Frame("badlen", a)) =>
              /\ call'[c].pc \in {"done", "s_done"}
              /\ call'[c].writes = 1
              /\ dead'[call[c].w]]_vars

\* C20: when a call reads a reply frame whose payload is not JSON, the call
\* ends there with the decoding error, without another attempt, and the
\* worker is flagged dead, in Handle as in Stream.
BadJsonEndsCall ==
    [][\A c \in Calls : \A a \in Calls :
          ReadsFrame(c, Frame("badjson", a)) =>
              /\ call'[c].pc \in {"done", "s_done"}
              /\ "json_error" \in {call'[c].res, call'[c].gres}
              /\ dead'[call[c].w]]_vars

\* C21: no goroutine is left waiting for the mutex of a worker that it holds
\* itself while that worker's child is running: a call that holds mu never
\* tries to take mu again.
NoSelfDeadlock ==
    \A c \in Calls :
        (mu[call[c].w] = c /\ childUp[call[c].w]) => call[c].pc # "s_stuck"

\* C22: the frame a Handle call decodes as its response is one the child
\* wrote in reply to that call's own request frame, never a frame that an
\* earlier exchange on the worker left unread.
HandleResponseIsOwn ==
    [][\A c \in HandleCalls :
          (call[c].pc = "h_wait" /\ call'[c].pc = "h_count") =>
              Head(pipe[call[c].w]).rid = c]_vars

(***************************************************************************)
(* A child that never reads its stdin and never writes a reply            *)
(***************************************************************************)

\* handleRequest, lines 191-212, when the child does not read and the frame
\* does not fit in what is left of the stdin pipe's buffer: w.stdin.Write
\* does not return; the call stays inside it, holding mu.  The timer of
\* lines 254-266 is created only after the two writes.
HandleWriteBlocks(c) ==
    LET w == call[c].w IN
    /\ call[c].pc = "h_lock"
    /\ mu[w] = 0
    /\ childUp[w]
    /\ mu' = [mu EXCEPT ![w] = c]
    /\ call' = [call EXCEPT ![c].pc = "h_write"]
    /\ UNCHANGED <<maxRequests, requestTimeout, dead, requestCount, childUp, childReq,
                   pipe, leaked, nextFast, nextSlow, overlap>>

\* handleRequest, lines 207-212: the blocked Write returns a broken-pipe error
\* once the child has been killed; handleRequest returns it, releasing mu.
HandleWriteBroken(c) ==
    LET w == call[c].w IN
    /\ call[c].pc = "h_write"
    /\ ~childUp[w]
    /\ mu' = [mu EXCEPT ![w] = 0]
    /\ call' = [call EXCEPT ![c] = AfterError([@ EXCEPT !.writes = @ + 1], "write_pipe")]
    /\ UNCHANGED <<maxRequests, requestTimeout, dead, requestCount, childUp, childReq,
                   pipe, leaked, nextFast, nextSlow, overlap>>

\* streamInternal, lines 306-334, in the same situation: the goroutine stays
\* inside w.stdin.Write, holding mu, while the caller waits on its timer.
StreamWriteBlocks(c) ==
    LET w == call[c].w IN
    /\ call[c].pc = "s_lock"
    /\ mu[w] = 0
    /\ ~dead[w]
    /\ childUp[w]
    /\ mu' = [mu EXCEPT ![w] = c]
    /\ call' = [call EXCEPT ![c].pc = "s_write"]
    /\ UNCHANGED <<maxRequests, requestTimeout, dead, requestCount, childUp, childReq,
                   pipe, leaked, nextFast, nextSlow, overlap>>

\* streamInternal, lines 329-334: the blocked Write fails once the child has
\* been killed; the error is returned as it is and mu released.
StreamWriteBroken(c) ==
    LET w == call[c].w IN
    /\ call[c].pc = "s_write"
    /\ ~childUp[w]
    /\ mu' = [mu EXCEPT ![w] = 0]
    /\ call' = [call EXCEPT ![c].pc = "s_done", ![c].gres = "write_pipe",
                            ![c].writes = @ + 1]
    /\ UNCHANGED <<maxRequests, requestTimeout, dead, requestCount, childUp, childReq,
                   pipe, leaked, nextFast, nextSlow, overlap>>

\* The steps of the goroutine that runs call c: Handle's own goroutine, or
\* the one Stream starts for streamInternal.
GoroutineStep(c) ==
    /\ \/ HandleCheck(c)
       \/ RestartSpawn(c)
       \/ RestartClear(c)
       \/ RestartZero(c)
       \/ HandleWrite(c)
       \/ HandleWriteBlocks(c)
       \/ HandleWriteBroken(c)
       \/ HandleRead(c)
       \/ HandleTimeout(c)
       \/ HandleMarkRetry(c)
       \/ StreamBegin(c)
       \/ StreamWriteBlocks(c)
       \/ StreamWriteBroken(c)
       \/ StreamRead(c)
    /\ UNCHANGED <<hubVars, clsVars, hotVars, frmVars, ordVars, lckVars, hdlVars, poolVars>>

\* The steps of Stream's caller: the select of lines 285-298.
CallerStep(c) ==
    /\ \/ StreamReturn(c)
       \/ StreamTimeoutMark(c)
       \/ StreamTimeoutKill(c)
    /\ UNCHANGED <<hubVars, clsVars, hotVars, frmVars, ordVars, lckVars, hdlVars, poolVars>>

\* Calls on one worker whose child stays silent.
SilentNext ==
    \/ /\ \E c \in Calls : CallHandle(c, DirectWorker)
       /\ UNCHANGED <<hubVars, clsVars, hotVars, frmVars, ordVars, lckVars, hdlVars, poolVars>>
    \/ /\ \E c \in Calls : CallStream(c, DirectWorker)
       /\ UNCHANGED <<hubVars, clsVars, hotVars, frmVars, ordVars, lckVars, hdlVars, poolVars>>
    \/ /\ \E c \in Calls : HandleCheck(c)
       /\ UNCHANGED <<hubVars, clsVars, hotVars, frmVars, ordVars, lckVars, hdlVars, poolVars>>
    \/ /\ \E c \in Calls : RestartSpawn(c)
       /\ UNCHANGED <<hubVars, clsVars, hotVars, frmVars, ordVars, lckVars, hdlVars, poolVars>>
    \/ /\ \E c \in Calls : RestartClear(c)
       /\ UNCHANGED <<hubVars, clsVars, hotVars, frmVars, ordVars, lckVars, hdlVars, poolVars>>
    \/ /\ \E c \in Calls : RestartZero(c)
       /\ UNCHANGED <<hubVars, clsVars, hotVars, frmVars, ordVars, lckVars, hdlVars, poolVars>>
    \/ /\ \E c \in Calls : HandleWrite(c)
       /\ UNCHANGED <<hubVars, clsVars, hotVars, frmVars, ordVars, lckVars, hdlVars, poolVars>>
    \/ /\ \E c \in Calls : HandleWriteBlocks(c)
       /\ UNCHANGED <<hubVars, clsVars, hotVars, frmVars, ordVars, lckVars, hdlVars, poolVars>>
    \/ /\ \E c \in Calls : HandleWriteBroken(c)
       /\ UNCHANGED <<hubVars, clsVars, hotVars, frmVars, ordVars, lckVars, hdlVars, poolVars>>
    \/ /\ \E c \in Calls : HandleRead(c)
       /\ UNCHANGED <<hubVars, clsVars, hotVars, frmVars, ordVars, lckVars, hdlVars, poolVars>>
    \/ /\ \E c \in Calls : HandleTimeout(c)
       /\ UNCHANGED <<hubVars, clsVars, hotVars, frmVars, ordVars, lckVars, hdlVars, poolVars>>
    \/ /\ \E c \in Calls : HandleMarkRetry(c)
       /\ UNCHANGED <<hubVars, clsVars, hotVars, frmVars, ordVars, lckVars, hdlVars, poolVars>>
    \/ /\ \E c \in Calls : StreamBegin(c)
       /\ UNCHANGED <<hubVars, clsVars, hotVars, frmVars, ordVars, lckVars, hdlVars, poolVars>>
    \/ /\ \E c \in Calls : StreamWriteBlocks(c)
       /\ UNCHANGED <<hubVars, clsVars, hotVars, frmVars, ordVars, lckVars, hdlVars, poolVars>>
    \/ /\ \E c \in Calls : StreamWriteBroken(c)
       /\ UNCHANGED <<hubVars, clsVars, hotVars, frmVars, ordVars, lckVars, hdlVars, poolVars>>
    \/ /\ \E c \in Calls : StreamRead(c)
       /\ UNCHANGED <<hubVars, clsVars, hotVars, frmVars, ordVars, lckVars, hdlVars, poolVars>>
    \/ /\ \E c \in Calls : StreamReturn(c)
       /\ UNCHANGED <<hubVars, clsVars, hotVars, frmVars, ordVars, lckVars, hdlVars, poolVars>>
    \/ /\ \E c \in Calls : StreamTimeoutMark(c)
       /\ UNCHANGED <<hubVars, clsVars, hotVars, frmVars, ordVars, lckVars, hdlVars, poolVars>>
    \/ /\ \E c \in Calls : StreamTimeoutKill(c)
       /\ UNCHANGED <<hubVars, clsVars, hotVars, frmVars, ordVars, lckVars, hdlVars, poolVars>>

\* requestTimeout > 0, no recycling.
InitSilent == HubInit /\ ClsIdle /\ WrkStart(0, 1) /\ HotIdle /\ FrmInit /\ OrdInit /\ LckInit /\ HdlInit /\ PoolIdle

\* Every goroutine that can take a step is scheduled, and a timer that has
\* been started fires.
SilentSpec ==
    /\ InitSilent
    /\ [][SilentNext]_vars
    /\ \A c \in Calls : WF_vars(GoroutineStep(c)) /\ WF_vars(CallerStep(c))

\* The call has returned to its caller.
Returned(c) ==
    \/ call[c].kind = "Handle" /\ call[c].pc = "done"
    \/ call[c].kind = "Stream" /\ call[c].ret = "returned"

\* C23: with requestTimeout > 0 and a child that neither reads nor writes,
\* every Handle and Stream call that was started returns, and the step that
\* returns a timeout error comes with or after the markDead of its path.
SilentChildCallsReturn ==
    /\ \A c \in Calls : (call[c].pc # "idle") ~> Returned(c)
    /\ [][\A c \in Calls :
            (call[c].res # "timeout" /\ call'[c].res = "timeout") =>
                (dead'[call[c].w] \/ call[c].ret = "t_kill")]_vars

\* C24: at the step in which a Handle or Stream call returns the timeout
\* error, which is the only result it returns, nothing of a response body has
\* been written to the caller's sink for that call.
TimeoutDeliversNoBody ==
    [][\A c \in Calls :
          (call[c].res # "timeout" /\ call'[c].res = "timeout") =>
              /\ call[c].res = "none"
              /\ SinkBody(call'[c].sink) = << >>]_vars

\* C25: a call whose timeout path kills the worker's running child is not
\* one that another call's exchange has locked out: at the kill, mu is held by
\* the killing call's own exchange or by nobody.
KillOnlyByLockHolder ==
    [][\A c \in Calls :
          (childUp[call[c].w] /\ ~childUp'[call[c].w]
             /\ call[c].res # "timeout" /\ call'[c].res = "timeout") =>
              mu[call[c].w] \in {0, c}]_vars

(***************************************************************************)
(* markAllWorkersDead beside a restart in progress                         *)
(***************************************************************************)

\* restart, lines 97-136, with the history taken at the spawn: the worker's
\* child is one started since the worker was last marked.
RestartSpawnNoted(c) ==
    /\ RestartSpawn(c)
    /\ revived' = IF childUp'[call[c].w] THEN revived \cup {call[c].w} ELSE revived
    /\ UNCHANGED <<watched, fsEvents, emitted, watchPos, unmarked, forcePos, forceCalls,
                   forceDone>>

\* ForceRecycleWorkers called up to MaxForce times while Handle calls restart
\* and use a worker.
MarkRaceNext ==
    \/ /\ ForceBegin
       /\ UNCHANGED <<hubVars, clsVars, wrkVars, frmVars, ordVars, lckVars, hdlVars, poolVars>>
    \/ /\ ForceMark
       /\ UNCHANGED <<hubVars, clsVars, frmVars, ordVars, lckVars, hdlVars, poolVars>>
    \/ /\ \E c \in Calls : CallHandle(c, DirectWorker)
       /\ UNCHANGED <<hubVars, clsVars, hotVars, frmVars, ordVars, lckVars, hdlVars, poolVars>>
    \/ /\ \E c \in Calls : HandleCheck(c)
       /\ UNCHANGED <<hubVars, clsVars, hotVars, frmVars, ordVars, lckVars, hdlVars, poolVars>>
    \/ /\ \E c \in Calls : RestartSpawnNoted(c)
       /\ UNCHANGED <<hubVars, clsVars, frmVars, ordVars, lckVars, hdlVars, poolVars>>
    \/ /\ \E c \in Calls : RestartClear(c)
       /\ UNCHANGED <<hubVars, clsVars, hotVars, frmVars, ordVars, lckVars, hdlVars, poolVars>>
    \/ /\ \E c \in Calls : RestartZero(c)
       /\ UNCHANGED <<hubVars, clsVars, hotVars, frmVars, ordVars, lckVars, hdlVars, poolVars>>
    \/ /\ \E c \in Calls : HandleWrite(c)
       /\ UNCHANGED <<hubVars, clsVars, hotVars, frmVars, ordVars, lckVars, hdlVars, poolVars>>
    \/ /\ \E c \in Calls : HandleRead(c)
       /\ UNCHANGED <<hubVars, clsVars, hotVars, frmVars, ordVars, lckVars, hdlVars, poolVars>>
    \/ /\ \E c \in Calls : HandleMarkRetry(c)
       /\ UNCHANGED <<hubVars, clsVars, hotVars, frmVars, ordVars, lckVars, hdlVars, poolVars>>
    \/ /\ \E c \in Calls : HandleCount(c)
       /\ UNCHANGED <<hubVars, clsVars, hotVars, frmVars, ordVars, lckVars, hdlVars, poolVars>>
    \/ /\ \E c \in Calls : HandleReturn(c)
       /\ UNCHANGED <<hubVars, clsVars, hotVars, frmVars, ordVars, lckVars, hdlVars, poolVars>>
    \/ /\ ChildReply(DirectWorker)
       /\ UNCHANGED <<hubVars, clsVars, hotVars, frmVars, ordVars, lckVars, hdlVars, poolVars>>

InitMarkRace == HubInit /\ ClsIdle /\ WrkIdle /\ HotIdle /\ FrmInit /\ OrdInit /\ LckInit /\ HdlInit /\ PoolIdle

MarkRaceSpec == InitMarkRace /\ [][MarkRaceNext]_vars

\* C26: a Handle call whose isDead check comes after markAllWorkersDead has
\* returned, as it does for every call that starts after the mark, goes on
\* without a restart only to a child that was spawned after that mark.
MarkNeverLost ==
    [][\A c \in HandleCalls :
          (call[c].pc = "h_check" /\ call'[c].pc = "h_lock"
             /\ forcePos = 0 /\ forceDone >= 1) =>
              call[c].w \in revived]_vars

\* C27: once a Stream call has returned to its caller, no step adds a header,
\* a status or body bytes to that call's sink.
SinkUntouchedAfterReturn ==
    [][\A c \in Calls :
          (call[c].kind = "Stream" /\ call[c].ret = "returned") =>
              call'[c].sink = call[c].sink]_vars

\* C28: when the spawn inside restart fails, the call returns the spawn
\* error there, having written no request frame since it found the worker
\* dead, and the worker is flagged dead at that return.
SpawnErrorKeepsDead ==
    [][\A c \in Calls :
          (call[c].pc = "h_restart" /\ call'[c].pc # "h_restart"
             /\ ~childUp'[call[c].w]) =>
              /\ call'[c].pc = "done"
              /\ call'[c].res = "spawn_error"
              /\ call'[c].writes = call[c].writes
              /\ childReq'[call[c].w] = << >>
              /\ dead'[call[c].w]]_vars

\* C29: no Unsubscribe call fails: a second Unsubscribe(C, S), made after S
\* was removed and closed, returns without raising, also while other
\* subscribers are registered on C.
RepeatedUnsubscribeHarmless == ~closePanic

\* C30: every subscriber in the registry has an open Send channel holding at
\* most 16 messages, and no key of the registry maps to an empty set.
RegistryWellFormed ==
    \A ch \in DOMAIN clients :
        /\ clients[ch] # {}
        /\ \A c \in clients[ch] :
              /\ ~wsClosed[c]
              /\ Len(wsSend[c]) <= BufSize

\* C30 witness: a subscriber with a full buffer is registered, and the last
\* subscriber of another channel was removed together with the channel's key.
FullBufferBesideRemovedKey ==
    /\ \E c \in ClientIds :
          /\ c \in SubsOf(clientChan[c])
          /\ Len(wsSend[c]) = BufSize
    /\ \E d \in unsubReturned :
          /\ wsClosed[d]
          /\ clientChan[d] \notin DOMAIN clients

(***************************************************************************)
(* Claims about the order of delivery (WSHub)                              *)
(***************************************************************************)

\* The hub with its publishers' messages and its consumers' receipts noted.
OrderNext ==
    \/ /\ \E ch \in Channels : SubscribeNoted(ch)
       /\ UNCHANGED <<clsVars, wrkVars, hotVars, frmVars, lckVars, hdlVars, poolVars>>
    \/ /\ \E c \in ClientIds : Unsubscribe(c)
       /\ UNCHANGED <<clsVars, wrkVars, hotVars, frmVars, ordVars, lckVars, hdlVars, poolVars>>
    \/ /\ \E p \in Slots, ch \in Channels : PublishNoted(p, ch)
       /\ UNCHANGED <<clsVars, wrkVars, hotVars, frmVars, lckVars, hdlVars, poolVars>>
    \/ /\ \E p \in Slots, c \in ClientIds : PublishSend(p, c)
       /\ UNCHANGED <<clsVars, wrkVars, hotVars, frmVars, ordVars, lckVars, hdlVars, poolVars>>
    \/ /\ \E p \in Slots : PublishEnd(p)
       /\ UNCHANGED <<clsVars, wrkVars, hotVars, frmVars, ordVars, lckVars, hdlVars, poolVars>>
    \/ /\ \E c \in ClientIds : RecvNoted(c)
       /\ UNCHANGED <<clsVars, wrkVars, hotVars, frmVars, lckVars, hdlVars, poolVars>>

InitOrder == HubInit /\ ClsIdle /\ WrkIdle /\ HotIdle /\ FrmInit /\ OrdInit /\ LckInit /\ HdlInit /\ PoolIdle

OrderSpec == InitOrder /\ [][OrderNext]_vars

\* C31: what a subscriber has received are messages published on its own
\* channel by Publish calls that began after it subscribed, each at most once,
\* and never a message ahead of one whose Publish call had ended before its
\* own began.
ReceivedInPublishOrder ==
    \A c \in ClientIds :
        /\ \A i \in 1..Len(received[c]) :
              LET m == received[c][i] IN
              /\ m.data \in 1..Len(published)
              /\ m.channel = clientChan[c]
              /\ published[m.data].ch = clientChan[c]
              /\ m.data > subscribedAt[c]
        /\ \A i, j \in 1..Len(received[c]) :
              i < j => /\ received[c][i].data # received[c][j].data
                       /\ received[c][j].data \notin published[received[c][i].data].prior

\* C31 witness: a subscriber has received two messages of its channel, in
\* the order of their Publish calls, a message of the other channel having
\* been published as well.
ReceivedTwoInOrder ==
    \E c \in ClientIds :
        /\ Len(received[c]) = 2
        /\ received[c][1].data < received[c][2].data
        /\ \E k \in 1..Len(published) : published[k].ch # clientChan[c]

(***************************************************************************)
(* Claims about the route lock                                             *)
(***************************************************************************)

\* The slow samples recorded and the request classified meanwhile.
SlowLatency == 600
LockRequest == Req(<<"/","r","/","s">>, <<"G","E","T">>, 3)

\* RecordLatency calls from several goroutines beside an IsSlowRequest call.
LockNext ==
    \/ /\ \E g \in Recorders, path \in RecPaths : RecEnter(g, path, SlowLatency)
       /\ UNCHANGED <<hubVars, wrkVars, hotVars, frmVars, ordVars, hdlVars, poolVars>>
    \/ /\ \E g \in Recorders : RecLock(g)
       /\ UNCHANGED <<hubVars, wrkVars, hotVars, frmVars, ordVars, hdlVars, poolVars>>
    \/ /\ \E g \in Recorders : RecUpdate(g)
       /\ UNCHANGED <<hubVars, wrkVars, hotVars, frmVars, ordVars, hdlVars, poolVars>>
    \/ /\ ClsEnter(LockRequest)
       /\ UNCHANGED <<hubVars, wrkVars, hotVars, frmVars, ordVars, hdlVars, poolVars>>
    \/ /\ ClsRead
       /\ UNCHANGED <<hubVars, wrkVars, hotVars, frmVars, ordVars, hdlVars, poolVars>>
    \/ /\ ClsReturn
       /\ UNCHANGED <<hubVars, wrkVars, hotVars, frmVars, ordVars, hdlVars, poolVars>>

InitLock == HubInit /\ ClsIdle /\ WrkIdle /\ HotIdle /\ FrmInit /\ OrdInit /\ LckInit /\ HdlInit /\ PoolIdle

LockSpec == InitLock /\ [][LockNext]_vars

\* C32: IsSlowRequest is never about to read the slow-prefix list while a
\* RecordLatency call holds the route lock with an append to the list ahead
\* of it: the read and the append are ordered by the lock.
ListReadUnderLock ==
    ~(clsCall.pc = "read" /\ \E g \in Recorders : Appends(g))

\* C33: every step leaves the entries of the slow-prefix list where they
\* were, adding at most one at the end, and no route key is on the list
\* twice, whatever number of slow samples several goroutines record.
PrefixListOnlyGrows ==
    /\ [][/\ Len(routePrefixes') \in {Len(routePrefixes), Len(routePrefixes) + 1}
          /\ SubSeq(routePrefixes', 1, Len(routePrefixes)) = routePrefixes]_vars
    /\ [](\A i, j \in 1..Len(routePrefixes) :
           routePrefixes[i] = routePrefixes[j] => i = j)

\* C33 witness: a key was promoted, slow samples were recorded for it
\* afterwards, and two RecordLatency calls are under way, one holding the
\* lock and one waiting for it.
PromotedOnceUnderContention ==
    /\ Len(routePrefixes) = 1
    /\ routeStats[routePrefixes[1]].count > MinSamples
    /\ \E g, h \in Recorders : recCall[g].pc = "locked" /\ recCall[h].pc = "lock"

(***************************************************************************)
(* The frontend handler and the latency recording                          *)
(***************************************************************************)

HandlerNext ==
    \/ /\ \E h \in Handlers, u \in Targets, static \in BOOLEAN, stream \in BOOLEAN :
             HandlerBegin(h, u, static, stream)
       /\ UNCHANGED <<hubVars, wrkVars, hotVars, frmVars, ordVars, lckVars, poolVars>>
    \/ /\ \E h \in Handlers, outcome \in Outcomes, elapsed \in Latencies :
             HandlerReturn(h, outcome, elapsed)
       /\ UNCHANGED <<hubVars, wrkVars, hotVars, frmVars, ordVars, lckVars, poolVars>>

InitHandler == HubInit /\ ClsIdle /\ WrkIdle /\ HotIdle /\ FrmInit /\ OrdInit /\ LckInit /\ HdlInit /\ PoolIdle

HandlerSpec == InitHandler /\ [][HandlerNext]_vars

\* The RecordLatency calls made for the request with the given id.
CallsFor(id) == { j \in 1..Len(latencyCalls) : latencyCalls[j].id = id }

\* C34: when the handler of a request that a worker answered successfully
\* has returned, buffered or streamed, exactly one RecordLatency call has
\* been made for it, with the request's path and duration.
EverySuccessRecorded ==
    \A k \in 1..Len(served) :
        served[k].outcome = "ok" =>
            /\ Cardinality(CallsFor(served[k].id)) = 1
            /\ \A j \in CallsFor(served[k].id) :
                   /\ latencyCalls[j].path = served[k].path
                   /\ latencyCalls[j].d = served[k].elapsed

\* The calls whose exchange the worker's current child has completed: the
\* response, or the stream up to its end frame, was read from it.
CompletedByChild(w) == { c \in Calls : call[c].w = w /\ call[c].served }

\* C35: with maxRequests = M > 0 the current child of a worker has completed
\* at most M exchanges, buffered or streamed, whatever the interleaving of
\* the callers.
ChildServesAtMostMax ==
    \A w \in Workers :
        maxRequests > 0 => Cardinality(CompletedByChild(w)) <= maxRequests

(***************************************************************************)
(* Round-robin selection over the accepted pool sizes                      *)
(***************************************************************************)

PoolNext ==
    \/ /\ \E d \in Dispatchers : PoolAdd(d)
       /\ UNCHANGED <<hubVars, clsVars, wrkVars, hotVars, frmVars, ordVars, lckVars, hdlVars>>
    \/ /\ \E d \in Dispatchers : PoolIndex(d)
       /\ UNCHANGED <<hubVars, clsVars, wrkVars, hotVars, frmVars, ordVars, lckVars, hdlVars>>

InitPool == HubInit /\ ClsIdle /\ WrkIdle /\ HotIdle /\ FrmInit /\ OrdInit /\ LckInit /\ HdlInit /\ PoolInit

PoolSpec == InitPool /\ [][PoolNext]_vars

\* C36: for every pool size the configuration check lets through and every
\* counter value, a selection ends with an index inside the worker list and
\* never with a panic.
SelectionSucceeds ==
    \A d \in Dispatchers :
        /\ ~pick[d].panicked
        /\ pick[d].picked => pick[d].idx \in 0..(poolLen - 1)

\* The workers chosen by the selections k .. k + poolLen - 1, in the order
\* of their counter values.
Window(k) == { Mod32(drawn[j], poolLen) : j \in k..(k + poolLen - 1) }

\* C37: the counter values the callers obtain are distinct and consecutive,
\* every poolLen consecutive selections choose every worker of the pool (and
\* so each one once), and the worker list keeps its length.
RoundRobinWindows ==
    /\ [](\A j, k \in 1..Len(drawn) : (drawn[j] = drawn[k] => j = k)
                                     /\ (k = j + 1 => drawn[k] = Inc32(drawn[j])))
    /\ [](poolLen > 0 =>
            \A k \in 1..Len(drawn) :
                k + poolLen - 1 <= Len(drawn) => Window(k) = 0..(poolLen - 1))
    /\ [][poolLen' = poolLen]_vars

(***************************************************************************)
(* The request frames on a child's stdin                                   *)
(***************************************************************************)

\* len of json.Marshal of a RequestPayload whose fields are all empty:
\* {"id":"","method":"","path":"","headers":null,"body":""}
EmptyRequestLen == 56

\* Number of length headers the child reads.
MaxChildReads == 3

\* json.Marshal(payload) for a body of n bytes that need no escaping, the
\* other fields empty: an object of EmptyRequestLen + n bytes.  Of the text
\* only the braces and the length are kept.
MarshalRequest(n) == <<Run(123, 1), Run(34, EmptyRequestLen - 2 + n), Run(125, 1)>>

\* The body lengths of the requests dispatched: BuildPayload reads the whole
\* request body, whatever its length.
RequestBodies == {0, 1, 200, MaxFrameLen - EmptyRequestLen, MaxFrameLen - EmptyRequestLen + 1}

\* handleRequest / streamInternal: length := uint32(len(jsonBytes)) and
\* w.stdin.Write(header), for the request with a body of n bytes.
WriteRequestHeader(n) == SendHeader(MarshalRequest(n))

\* worker.php, lines 85-103: fread of the 4 header bytes, unpack("N"), and
\* the check of the length: 0 or more than 10 MiB is logged and the loop
\* goes on to read the next 4 bytes as a header.
ChildRecvHeader ==
    /\ fin.pc = "hdr"
    /\ Size(fwire) >= 4
    /\ Len(fgot) < MaxChildReads
    /\ LET n == DecodeLen(Bytes(Take(fwire, 4))) IN
       IF n <= 0 \/ n > MaxFrameLen
       THEN /\ fin' = [pc |-> "hdr", n |-> 0]
            /\ fgot' = Append(fgot, [ok |-> FALSE, n |-> n, payload |-> << >>])
       ELSE /\ fin' = [pc |-> "body", n |-> n]
            /\ fgot' = fgot
    /\ fwire' = Drop(fwire, 4)
    /\ UNCHANGED <<fsent, fout>>

RequestFrameNext ==
    \/ /\ \E n \in RequestBodies : WriteRequestHeader(n)
       /\ UNCHANGED <<hubVars, clsVars, wrkVars, hotVars, ordVars, lckVars, hdlVars, poolVars>>
    \/ /\ SendPayload
       /\ UNCHANGED <<hubVars, clsVars, wrkVars, hotVars, ordVars, lckVars, hdlVars, poolVars>>
    \/ /\ ChildRecvHeader
       /\ UNCHANGED <<hubVars, clsVars, wrkVars, hotVars, ordVars, lckVars, hdlVars, poolVars>>
    \/ /\ RecvPayload
       /\ UNCHANGED <<hubVars, clsVars, wrkVars, hotVars, ordVars, lckVars, hdlVars, poolVars>>

InitRequestFrame == HubInit /\ ClsIdle /\ WrkIdle /\ HotIdle /\ FrmInit /\ OrdInit /\ LckInit /\ HdlInit /\ PoolIdle

RequestFrameSpec == InitRequestFrame /\ [][RequestFrameNext]_vars

\* C38: every request frame written to a child declares a length between 1
\* and 10 MiB, the number of payload bytes that follow it; a request whose
\* JSON text is longer is not written.
RequestFramesWithinLimit ==
    \A i \in 1..Len(fsent) :
        /\ DecodeLen(EncodeLen(Size(fsent[i]))) = Size(fsent[i])
        /\ Size(fsent[i]) >= 1
        /\ Size(fsent[i]) <= MaxFrameLen

\* C39: on the sink of every stream there is at most one WriteHeader call,
\* and every header Set and the WriteHeader call come before the first Write
\* of body bytes, whatever frames the child sends.
SinkStatusOnceBeforeBody ==
    \A c \in Calls :
        LET sk == call[c].sink IN
        /\ Cardinality({ i \in 1..Len(sk) : sk[i].op = "status" }) <= 1
        /\ \A i, j \in 1..Len(sk) :
               (sk[i].op \in {"set", "status"} /\ sk[j].op = "write") => i < j

\* The first path segment of every request target the handler is given.
FirstSegment == <<"/", "a">>

\* C40: the samples of paths with the same first segment are counted under
\* one route key, that segment: here /a/b and /a?x=1 under /a.
SamplesUnderFirstSegment ==
    latencyCalls # << >> =>
        /\ DOMAIN routeStats = {FirstSegment}
        /\ routeStats[FirstSegment].count = Len(latencyCalls)

====
